---- MODULE Spec2Model ----
(***************************************************************************)
(* A model of the MCP host's OAuth 2.1 engine (OAuthManager), its client   *)
(* wrapper (MCPClientEnhanced) and its connection manager                  *)
(* (MCPConnectionManagerEnhanced).                                         *)
(*                                                                         *)
(* Every handler is one action.  What the remote side answers to each      *)
(* fetch of a handler is an input of the action, drawn from a small set.   *)
(* Time is counted in units of 150 seconds, so that the 5 minute refresh   *)
(* buffer is 2 units and the 10 minute pending lifetime is 4 units, and a  *)
(* token lifetime of one unit lies inside the refresh buffer.              *)
(***************************************************************************)
EXTENDS Integers, Sequences, FiniteSets, TLC

\* ------------------------------------------------------------------ bounds

\* the clock stops here
MaxTime == 6
\* how many state parameters generateState hands out in one run
MaxStates == 1
\* the same, in the run that follows several pending authorizations
MaxPending == 2

\* ------------------------------------------------------- program constants

\* expiresAt: Date.now() + (10 * 60 * 1000), in time units
PendingLifetime == 4
\* tokenData.expiresAt - 5 * 60 * 1000, in time units
RefreshBuffer == 2
\* expiresIn: 600 (seconds), in time units
ExpiresInReturned == 4

\* ------------------------------------------------------------------- state

VARIABLES
    now,                    \* Date.now(), in time units
    pendingAuthorizations,  \* OAuthManager: state -> PendingAuthorization
    tokens,                 \* OAuthManager: server name -> TokenRecord
    serverMetadata,         \* OAuthManager: server URL -> metadata
    clientRegistrations,    \* OAuthManager: server URL -> registration
    generated,              \* how many states generateState has handed out
    configs,                \* manager: server name -> normalized config
    connections,            \* manager: server name -> MCPClientEnhanced
    completed,              \* the state parameters presented to the callback so far
    last,                   \* the last handler run: its call, its outcome, its requests
    unswept,                \* the OAuthManager of the same run without the sweeps
    inflight,               \* the handlers waiting for an answer: call -> what they hold
    handedOut               \* the authorization endpoints given to callers: state -> URL

vars == << now, pendingAuthorizations, tokens, serverMetadata, clientRegistrations,
           generated, configs, connections, completed, last, unswept, inflight, handedOut >>

\* ------------------------------------------------------------ JS values

\* undefined / null of a string-valued field
Null == "null"
\* undefined / null of a number-valued field: a value no lifetime and no
\* timestamp of the model takes
NoNumber == 0 - 100

\* JavaScript truthiness of a string-valued field
Truthy(x) == x # Null /\ x # ""
\* JavaScript truthiness of a number-valued field
TruthyNum(n) == n # NoNumber /\ n # 0
\* JavaScript truthiness of a timestamp field: Date.now() plus a lifetime is
\* never 0, whatever the reading of the clock the model calls 0
TruthyTime(t) == t # NoNumber

\* ------------------------------------------------------------------ URLs

\* a server URL as new URL() sees it: whether it parses, its origin, its path segments
GoodUrl == [parses |-> TRUE, origin |-> "https://h", path |-> <<"v1", "sse">>]
BadUrl == [parses |-> FALSE, origin |-> Null, path |-> <<>>]
OneSegmentUrl == [parses |-> TRUE, origin |-> "https://h", path |-> <<"sse">>]
RootUrl == [parses |-> TRUE, origin |-> "https://h", path |-> <<>>]

\* segments.join('/') behind a leading slash, "" for no segment
RECURSIVE JoinPath(_)
JoinPath(segments) ==
    IF Len(segments) = 0 THEN "" ELSE "/" \o Head(segments) \o JoinPath(Tail(segments))

\* url.pathname.split('/').slice(0, -1).join('/'): the path without its last segment
PathPrefix(url) ==
    IF Len(url.path) = 0 THEN "" ELSE JoinPath(SubSeq(url.path, 1, Len(url.path) - 1))

\* the candidate metadata URLs of one discovery, in the order they are tried
DiscoveryUrls(serverUrl, customMetadataUrl) ==
    (IF Truthy(customMetadataUrl)
        THEN << [kind |-> "custom", url |-> customMetadataUrl] >>
        ELSE << >>)
    \o (IF Len(serverUrl.path) > 0
          THEN << [kind |-> "oauth-as",
                   url |-> serverUrl.origin \o "/.well-known/oauth-authorization-server"] >>
               \o (IF Truthy(PathPrefix(serverUrl))
                     THEN << [kind |-> "oauth-as-prefix",
                              url |-> serverUrl.origin \o PathPrefix(serverUrl)
                                        \o "/.well-known/oauth-authorization-server"] >>
                     ELSE << >>)
          ELSE << [kind |-> "oauth-as",
                   url |-> serverUrl.origin \o "/.well-known/oauth-authorization-server"] >>)
    \o << [kind |-> "openid", url |-> serverUrl.origin \o "/.well-known/openid-configuration"] >>

\* the metadata document a candidate URL serves when it answers 2xx with JSON:
\* response.json() is returned as it is, with the endpoints it names
MetadataDocument(cand, env) ==
    [source |-> cand.kind,
     authorization_endpoint |-> IF env.docEndpoints THEN cand.kind \o "/authorize" ELSE Null,
     token_endpoint |-> IF env.docEndpoints THEN cand.kind \o "/token" ELSE Null,
     registration_endpoint |-> IF env.docRegistration THEN cand.kind \o "/register" ELSE Null,
     revocation_endpoint |-> IF env.docRevocation THEN cand.kind \o "/revoke" ELSE Null]

\* the endpoints synthesized by convention under the server's origin
DefaultMetadata(baseUrl) ==
    [source |-> "default",
     authorization_endpoint |-> baseUrl \o "/authorize",
     token_endpoint |-> baseUrl \o "/token",
     registration_endpoint |-> baseUrl \o "/register",
     revocation_endpoint |-> Null]

\* parseWWWAuthenticateHeader: the header's key="value" pairs, Null where a key is missing
ParseWWWAuthenticateHeader(header, baseUrl) ==
    IF Truthy(header.authorization_uri) \/ Truthy(header.realm)
    THEN [source |-> "challenge",
          authorization_endpoint |-> IF Truthy(header.authorization_uri)
                                       THEN header.authorization_uri
                                       ELSE baseUrl \o "/authorize",
          token_endpoint |-> IF Truthy(header.token_uri) THEN header.token_uri
                                                         ELSE baseUrl \o "/token",
          registration_endpoint |-> header.registration_uri,
          revocation_endpoint |-> Null]
    ELSE [source |-> Null]

\* the index of the last candidate that answers 2xx with a JSON body, 0 if none
LastSuccess(cands, env) ==
    LET hits == {i \in DOMAIN cands : env.fetch[cands[i].kind] = "ok"}
    IN IF hits = {} THEN 0 ELSE CHOOSE i \in hits : \A j \in hits : i >= j

\* the index of the first candidate that answers 2xx with a JSON body, 0 if none
FirstSuccess(cands, env) ==
    LET hits == {i \in DOMAIN cands : env.fetch[cands[i].kind] = "ok"}
    IN IF hits = {} THEN 0 ELSE CHOOSE i \in hits : \A j \in hits : i <= j

\* discoverServerMetadata: whether it threw, the metadata returned, whether
\* it was put in the serverMetadata cache, and the URLs fetched
DiscoverServerMetadata(serverUrl, customMetadataUrl, env) ==
    IF ~serverUrl.parses
    THEN \* new URL(serverUrl) throws in the try block and again in the catch block
         [threw |-> TRUE, metadata |-> [source |-> Null], cached |-> FALSE, tried |-> << >>]
    ELSE LET cands == DiscoveryUrls(serverUrl, customMetadataUrl)
             first == FirstSuccess(cands, env)
             challenge == IF env.probe = "header"
                            THEN ParseWWWAuthenticateHeader(env.header, serverUrl.origin)
                            ELSE [source |-> Null]
             probed == cands \o << [kind |-> "probe", url |-> serverUrl.origin] >>
         IN IF first # 0
            THEN [threw |-> FALSE, metadata |-> MetadataDocument(cands[first], env),
                  cached |-> TRUE, tried |-> SubSeq(cands, 1, first)]
            ELSE IF challenge.source # Null
            THEN [threw |-> FALSE, metadata |-> challenge, cached |-> TRUE, tried |-> probed]
            ELSE [threw |-> FALSE, metadata |-> DefaultMetadata(serverUrl.origin),
                  cached |-> TRUE, tried |-> probed]

\* --------------------------------------------------------- the remote side

CandidateKinds == {"custom", "oauth-as", "oauth-as-prefix", "openid"}

NoHeader == [realm |-> Null, authorization_uri |-> Null, token_uri |-> Null,
             registration_uri |-> Null]

\* the ways a token endpoint request fails: an error status, a fetch that
\* throws, a 2xx answer whose body is not JSON
TokenFailures ==
    [status : {"non2xx", "neterr", "nonjson"}, access_token : {Null}, refresh_token : {Null},
     expires_in : {NoNumber}]

\* the 2xx answers of the token endpoint with their JSON bodies
TokenBodies ==
    [status : {"ok"}, access_token : {"a1", "a2"}, refresh_token : {Null, "r1"},
     expires_in : {NoNumber, 0, 1, 3}]

\* ------------------------------------------------------------ OAuthManager

\* what process.env holds: no APP_URL, HEROKU_APP_URL, HEROKU_APP_NAME or PORT
ProcessEnv == [APP_URL |-> Null, HEROKU_APP_URL |-> Null, HEROKU_APP_NAME |-> Null,
               PORT |-> Null]

\* getCallbackUrl: the custom URL, else the application's base URL with /oauth/callback
\* (no base URL of ProcessEnv ends in a slash, so stripping it changes nothing)
GetCallbackUrl(customCallbackUrl) ==
    IF Truthy(customCallbackUrl) THEN customCallbackUrl
    ELSE LET baseUrl ==
                 IF Truthy(ProcessEnv.APP_URL) THEN ProcessEnv.APP_URL
                 ELSE IF Truthy(ProcessEnv.HEROKU_APP_URL) THEN ProcessEnv.HEROKU_APP_URL
                 ELSE IF Truthy(ProcessEnv.HEROKU_APP_NAME)
                        THEN "https://" \o ProcessEnv.HEROKU_APP_NAME \o ".herokuapp.com"
                 ELSE "http://localhost:"
                        \o (IF Truthy(ProcessEnv.PORT) THEN ProcessEnv.PORT ELSE "3000")
         IN baseUrl \o "/oauth/callback"

\* m with key k set to v, whether or not k is a key of m already  (Map.set)
MapSet(m, k, v) == [x \in DOMAIN m \cup {k} |-> IF x = k THEN v ELSE m[x]]
\* m without key k  (Map.delete)
MapDelete(m, k) == [x \in DOMAIN m \ {k} |-> m[x]]

\* The four maps of the OAuthManager, the count of states handed out and the
\* requests sent so far by the running handler travel together as a store s:
\*   s.pend  pendingAuthorizations     s.tok  tokens
\*   s.meta  serverMetadata            s.reg  clientRegistrations
\*   s.ctr   states generated          s.reqs requests of this handler

\* this.serverMetadata.set(serverUrl, metadata), on the paths that cache
CacheMetadata(s, serverUrl, d) ==
    IF d.cached THEN [s EXCEPT !.meta = MapSet(s.meta, serverUrl, d.metadata)] ELSE s

Sent(s, request) == [s EXCEPT !.reqs = Append(s.reqs, request)]

NoRegistration == [found |-> FALSE, client_id |-> Null]

\* registerClient once the metadata d is discovered: the POST to the
\* registration endpoint and the caching of its answer
Registered(s, serverUrl, clientMetadata, env, d) ==
    LET s1 == CacheMetadata(s, serverUrl, d)
        request == [kind |-> "register",
                    endpoint |-> d.metadata.registration_endpoint,
                    redirect_uris |-> IF clientMetadata.redirect_uris # << >>
                                        THEN clientMetadata.redirect_uris
                                        ELSE << GetCallbackUrl(Null) >>,
                    answer |-> env.reg]
        registration == [found |-> TRUE,
                         client_id |-> IF env.reg = "client" THEN "dyn" ELSE Null]
    IN IF d.threw THEN [s |-> s, registration |-> NoRegistration]
       ELSE IF ~Truthy(d.metadata.registration_endpoint)
       THEN [s |-> s1, registration |-> NoRegistration]
       ELSE IF env.reg \in {"client", "noClientId"}
       THEN [s |-> [Sent(s1, request) EXCEPT !.reg = MapSet(s1.reg, serverUrl, registration)],
             registration |-> registration]
       ELSE [s |-> Sent(s1, request), registration |-> NoRegistration]

\* registerClient: [s, registration]; registration.found is FALSE for null
RegisterClient(s, serverUrl, clientMetadata, env) ==
    Registered(s, serverUrl, clientMetadata, env,
               DiscoverServerMetadata(serverUrl, Null, env.disc))

\* generateState / generateCodeVerifier: crypto.randomBytes never repeats a value,
\* so the n-th value drawn is the number n
GenerateStateRepeated(s) == 1
GenerateState(s) == s.ctr + 1
GenerateCodeVerifier(s) == s.ctr + 1
\* generateCodeChallenge: SHA-256 of the verifier, an injective function of it here
GenerateCodeChallenge(codeVerifier) == << "S256", codeVerifier >>

\* the PendingAuthorization stored by initiateAuthorizationFlow
PendingRecord(s, serverName, serverUrl, options, clientId) ==
    [serverName |-> serverName,
     serverUrl |-> serverUrl,
     codeVerifier |-> GenerateCodeVerifier(s),
     clientId |-> clientId,
     clientSecret |-> options.clientSecret,
     scopes |-> options.scopes,
     redirectUri |-> GetCallbackUrl(options.callbackUrl),
     createdAt |-> now,
     expiresAt |-> now + PendingLifetime]

NoAuthInfo == [authorizationUrl |-> [endpoint |-> Null], state |-> 0, expiresIn |-> NoNumber]

\* an initiation that stores the pending record before it looks at the client id
AuthorizeUnchecked(s, serverName, serverUrl, options, metadata, clientId) ==
    [s |-> [s EXCEPT !.pend = MapSet(s.pend, GenerateState(s),
                                     PendingRecord(s, serverName, serverUrl, options,
                                                   clientId)),
                     !.ctr = GenerateState(s)],
     threw |-> IF Truthy(clientId) THEN Null ELSE "NoClientId",
     ret |-> [NoAuthInfo EXCEPT !.state = GenerateState(s)]]

\* initiateAuthorizationFlow once the client id is settled: the state, the
\* pending record and the authorization URL
Authorize(s, serverName, serverUrl, options, metadata, clientId) ==
    LET state == GenerateState(s)
        pending == PendingRecord(s, serverName, serverUrl, options, clientId)
        authUrl == [endpoint |-> metadata.authorization_endpoint,
                    response_type |-> "code",
                    client_id |-> clientId,
                    redirect_uri |-> pending.redirectUri,
                    state |-> state,
                    code_challenge |-> GenerateCodeChallenge(pending.codeVerifier),
                    code_challenge_method |-> "S256",
                    scope |-> options.scopes]
    IN IF ~Truthy(clientId) THEN [s |-> s, threw |-> "NoClientId", ret |-> NoAuthInfo]
       ELSE [s |-> [s EXCEPT !.pend = MapSet(s.pend, state, pending), !.ctr = state],
             threw |-> Null,
             ret |-> [authorizationUrl |-> authUrl, state |-> state,
                      expiresIn |-> ExpiresInReturned]]

\* initiateAuthorizationFlow with no client id in the options, once the
\* registration r is looked up in the cache or requested
AuthorizeRegistered(serverName, serverUrl, options, metadata, r) ==
    Authorize(r.s, serverName, serverUrl, options, metadata, r.registration.client_id)

\* initiateAuthorizationFlow once the metadata d is discovered
Discovered(s, serverName, serverUrl, options, env, d) ==
    LET s1 == CacheMetadata(s, serverUrl, d)
    IN IF d.threw THEN [s |-> s, threw |-> "TypeError", ret |-> NoAuthInfo]
       ELSE IF Truthy(options.clientId)
       THEN Authorize(s1, serverName, serverUrl, options, d.metadata, options.clientId)
       ELSE IF serverUrl \in DOMAIN s1.reg
       THEN AuthorizeRegistered(serverName, serverUrl, options, d.metadata,
                                [s |-> s1, registration |-> s1.reg[serverUrl]])
       ELSE AuthorizeRegistered(serverName, serverUrl, options, d.metadata,
                                RegisterClient(s1, serverUrl, options.clientMetadata, env))

\* initiateAuthorizationFlow: [s, threw, ret]; threw is Null when it returns
InitiateAuthorizationFlow(s, serverName, serverUrl, options, env) ==
    Discovered(s, serverName, serverUrl, options, env,
               DiscoverServerMetadata(serverUrl, options.metadataUrl, env.disc))

\* the answer to the next token endpoint request of the running handler: the
\* remote side's answers are numbered in the order the requests arrive
TokenAnswer(s, env) ==
    LET n == Cardinality({i \in DOMAIN s.reqs : s.reqs[i].kind = "token"})
    IN env.toks[IF n + 1 <= Len(env.toks) THEN n + 1 ELSE Len(env.toks)]

\* an expiry computed from every lifetime the response carries, zero included
ExpiresAtOfAny(expires_in) == IF expires_in # NoNumber THEN now + expires_in ELSE NoNumber

\* expires_in ? Date.now() + expires_in * 1000 : null
ExpiresAt(expires_in) == IF TruthyNum(expires_in) THEN now + expires_in ELSE NoNumber

\* a storeTokens that keeps one record for each server URL: the records of the
\* other names with the same URL are replaced as well
StoreTokensByUrl(s, serverName, tokenData) ==
    [s EXCEPT !.tok = [n \in DOMAIN s.tok \cup {serverName} |->
                          IF n = serverName THEN tokenData
                          ELSE IF s.tok[n].serverUrl = tokenData.serverUrl THEN tokenData
                          ELSE s.tok[n]]]

\* a storeTokens that stores nothing
StoreTokensDropped(s, serverName, tokenData) == s

\* storeTokens
StoreTokens(s, serverName, tokenData) == [s EXCEPT !.tok = MapSet(s.tok, serverName, tokenData)]

\* the record handleCallback stores: { ...tokens, serverUrl, clientId, clientSecret, ... }
ExchangedRecord(pending, body) ==
    [access_token |-> body.access_token,
     refresh_token |-> body.refresh_token,
     expires_in |-> body.expires_in,
     serverUrl |-> pending.serverUrl,
     clientId |-> pending.clientId,
     clientSecret |-> pending.clientSecret,
     grantType |-> Null,
     obtainedAt |-> now,
     expiresAt |-> ExpiresAt(body.expires_in)]

\* a callback that leaves the expired record in the map
CallbackExpiredKept(s, state) == s

\* if (Date.now() > pending.expiresAt): the record is dropped before the throw
CallbackExpired(s, state) == [s EXCEPT !.pend = MapDelete(s.pend, state)]

\* a catch block that leaves the pending record in the map
CallbackFailedKept(s, state) == s

\* the catch block of handleCallback
CallbackFailed(s, state) == [s EXCEPT !.pend = MapDelete(s.pend, state)]

\* a try block that stores the tokens and leaves the pending record in the map
CallbackSucceededKept(s, state, pending, body) ==
    StoreTokens(s, pending.serverName, ExchangedRecord(pending, body))

\* the end of handleCallback's try block: store the tokens, then drop the pending record
CallbackSucceeded(s, state, pending, body) ==
    LET stored == StoreTokens(s, pending.serverName, ExchangedRecord(pending, body))
    IN [stored EXCEPT !.pend = MapDelete(stored.pend, state)]

\* the try block of handleCallback once the metadata d is discovered
Exchange(s, code, state, pending, answer, d) ==
    LET s1 == CacheMetadata(s, pending.serverUrl, d)
        request == [kind |-> "token",
                    grant_type |-> "authorization_code",
                    endpoint |-> d.metadata.token_endpoint,
                    code |-> code,
                    redirect_uri |-> IF Truthy(pending.redirectUri)
                                       THEN pending.redirectUri ELSE GetCallbackUrl(Null),
                    client_id |-> pending.clientId,
                    code_verifier |-> pending.codeVerifier,
                    client_secret |-> pending.clientSecret,
                    answer |-> answer]
    IN IF d.threw THEN [s |-> CallbackFailed(s, state), threw |-> "TypeError"]
       ELSE IF answer \in TokenFailures
       THEN [s |-> CallbackFailed(Sent(s1, request), state), threw |-> "ExchangeFailed"]
       ELSE [s |-> CallbackSucceeded(Sent(s1, request), state, pending, answer),
             threw |-> Null]

\* handleCallback: [s, threw]
HandleCallback(s, code, state, env) ==
    IF state \notin DOMAIN s.pend THEN [s |-> s, threw |-> "InvalidState"]
    ELSE IF now > s.pend[state].expiresAt
    THEN [s |-> CallbackExpired(s, state), threw |-> "Expired"]
    ELSE Exchange(s, code, state, s.pend[state], TokenAnswer(s, env),
                  DiscoverServerMetadata(s.pend[state].serverUrl, Null, env.disc))

\* handleCallback from its call to its token request, where it waits for the
\* answer holding the pending record it read: [s, threw, waits, pending, d]
HandleCallbackToFetch(s, code, state, d) ==
    IF state \notin DOMAIN s.pend
    THEN [s |-> s, threw |-> "InvalidState", waits |-> FALSE]
    ELSE IF now > s.pend[state].expiresAt
    THEN [s |-> CallbackExpired(s, state), threw |-> "Expired", waits |-> FALSE]
    ELSE IF d.threw
    THEN [s |-> CallbackFailed(s, state), threw |-> "TypeError", waits |-> FALSE]
    ELSE [s |-> CacheMetadata(s, s.pend[state].serverUrl, d), threw |-> Null, waits |-> TRUE]

\* clientCredentialsGrant once the metadata d is discovered
Granted(s, serverName, serverUrl, clientId, clientSecret, scopes, body, d) ==
    LET s1 == CacheMetadata(s, serverUrl, d)
        request == [kind |-> "token",
                    grant_type |-> "client_credentials",
                    endpoint |-> d.metadata.token_endpoint,
                    client_id |-> clientId,
                    client_secret |-> clientSecret,
                    scope |-> scopes,
                    answer |-> body]
    IN IF d.threw THEN [s |-> s, threw |-> "TypeError"]
       ELSE IF body \in TokenFailures THEN [s |-> Sent(s1, request), threw |-> "GrantFailed"]
       ELSE [s |-> StoreTokens(Sent(s1, request), serverName,
                      [access_token |-> body.access_token,
                       refresh_token |-> body.refresh_token,
                       expires_in |-> body.expires_in,
                       serverUrl |-> serverUrl,
                       clientId |-> clientId,
                       clientSecret |-> clientSecret,
                       grantType |-> "client_credentials",
                       obtainedAt |-> now,
                       expiresAt |-> ExpiresAt(body.expires_in)]),
             threw |-> Null]

\* clientCredentialsGrant: [s, threw]
ClientCredentialsGrant(s, serverName, serverUrl, clientId, clientSecret, scopes, env) ==
    Granted(s, serverName, serverUrl, clientId, clientSecret, scopes, TokenAnswer(s, env),
            DiscoverServerMetadata(serverUrl, Null, env.disc))

\* a refresh that stores the old record again
RefreshedRecordStale(tokenData, newTokens) == tokenData

\* a refresh that stores the response alone: what it omits is lost
RefreshedRecordReplaced(tokenData, newTokens) ==
    [tokenData EXCEPT
        !.access_token = newTokens.access_token,
        !.refresh_token = newTokens.refresh_token,
        !.expires_in = newTokens.expires_in,
        !.obtainedAt = now,
        !.expiresAt = ExpiresAt(newTokens.expires_in)]

\* { ...tokenData, ...newTokens, obtainedAt, expiresAt }: a field the response
\* does not carry keeps the old record's value
RefreshedRecord(tokenData, newTokens) ==
    [tokenData EXCEPT
        !.access_token = IF newTokens.access_token # Null THEN newTokens.access_token ELSE @,
        !.refresh_token = IF newTokens.refresh_token # Null THEN newTokens.refresh_token ELSE @,
        !.expires_in = IF newTokens.expires_in # NoNumber THEN newTokens.expires_in ELSE @,
        !.obtainedAt = now,
        !.expiresAt = ExpiresAt(newTokens.expires_in)]

\* a refresh that clears the record on every failure
RefreshAnsweredClearing(s, serverName, tokenData, answer) ==
    IF answer \in TokenFailures
    THEN [s |-> [s EXCEPT !.tok = MapDelete(s.tok, serverName)], threw |-> "RefreshFailed"]
    ELSE [s |-> StoreTokens(s, serverName, RefreshedRecord(tokenData, answer)), threw |-> Null]

\* a refresh that throws on an error status and leaves the record in the map
RefreshAnsweredKeeping(s, serverName, tokenData, answer) ==
    IF answer \in TokenFailures THEN [s |-> s, threw |-> "RefreshFailed"]
    ELSE [s |-> StoreTokens(s, serverName, RefreshedRecord(tokenData, answer)), threw |-> Null]

\* what refreshAccessToken does with the answer of the token endpoint
RefreshAnswered(s, serverName, tokenData, answer) ==
    IF answer.status = "non2xx"
    THEN [s |-> [s EXCEPT !.tok = MapDelete(s.tok, serverName)], threw |-> "RefreshFailed"]
    ELSE IF answer \in TokenFailures
    THEN [s |-> s, threw |-> "RefreshFailed"]
    ELSE [s |-> StoreTokens(s, serverName, RefreshedRecord(tokenData, answer)), threw |-> Null]

\* refreshAccessToken once the metadata d is discovered
Refresh(s, serverName, tokenData, answer, d) ==
    LET s1 == CacheMetadata(s, tokenData.serverUrl, d)
        request == [kind |-> "token",
                    grant_type |-> "refresh_token",
                    endpoint |-> d.metadata.token_endpoint,
                    refresh_token |-> tokenData.refresh_token,
                    client_id |-> tokenData.clientId,
                    client_secret |-> tokenData.clientSecret,
                    answer |-> answer]
    IN IF d.threw THEN [s |-> s, threw |-> "TypeError"]
       ELSE RefreshAnswered(Sent(s1, request), serverName, tokenData, answer)

\* refreshAccessToken: [s, threw]
RefreshAccessToken(s, serverName, env) ==
    IF serverName \notin DOMAIN s.tok \/ ~Truthy(s.tok[serverName].refresh_token)
    THEN [s |-> s, threw |-> "NoRefreshToken"]
    ELSE Refresh(s, serverName, s.tok[serverName], TokenAnswer(s, env),
                 DiscoverServerMetadata(s.tok[serverName].serverUrl, Null, env.disc))

\* refreshAccessToken from its call to its token request, where it waits for
\* the answer holding the record it read: [s, threw, waits]
RefreshToFetch(s, serverName, d) ==
    IF serverName \notin DOMAIN s.tok \/ ~Truthy(s.tok[serverName].refresh_token)
    THEN [s |-> s, threw |-> "NoRefreshToken", waits |-> FALSE]
    ELSE IF d.threw THEN [s |-> s, threw |-> "TypeError", waits |-> FALSE]
    ELSE [s |-> CacheMetadata(s, s.tok[serverName].serverUrl, d), threw |-> Null,
          waits |-> TRUE]

\* a check that takes a record without expiry for one that needs a refresh
NeedsRefreshWithoutExpiry(tokenData) ==
    ~TruthyTime(tokenData.expiresAt) \/ now > tokenData.expiresAt - RefreshBuffer

\* tokenData.expiresAt && Date.now() > (tokenData.expiresAt - 5 * 60 * 1000)
NeedsRefresh(tokenData) ==
    TruthyTime(tokenData.expiresAt) /\ now > tokenData.expiresAt - RefreshBuffer

\* a getAccessToken that answers null and leaves the record in the map
ExpiredWithoutRefreshKept(s, serverName) == [s |-> s, ret |-> Null]

\* the record is inside the refresh window and has no refresh token: it is dropped
ExpiredWithoutRefresh(s, serverName) ==
    [s |-> [s EXCEPT !.tok = MapDelete(s.tok, serverName)], ret |-> Null]

\* getAccessToken after its refresh r: the token of the record now stored, or
\* null when the refresh threw
Refreshed(serverName, r) ==
    IF r.threw # Null THEN [s |-> r.s, ret |-> Null]
    ELSE [s |-> r.s,
          ret |-> IF serverName \in DOMAIN r.s.tok THEN r.s.tok[serverName].access_token
                                                   ELSE Null]

\* getAccessToken: [s, ret]; ret is the access token or Null
GetAccessToken(s, serverName, env) ==
    IF serverName \notin DOMAIN s.tok THEN [s |-> s, ret |-> Null]
    ELSE IF NeedsRefresh(s.tok[serverName])
    THEN IF Truthy(s.tok[serverName].refresh_token)
         THEN Refreshed(serverName, RefreshAccessToken(s, serverName, env))
         ELSE ExpiredWithoutRefresh(s, serverName)
    ELSE [s |-> s, ret |-> s.tok[serverName].access_token]

\* a hasValidTokens that does not look at the expiry
HasValidTokensIgnoringExpiry(tok, serverName) == serverName \in DOMAIN tok

\* hasValidTokens
HasValidTokens(tok, serverName) ==
    IF serverName \notin DOMAIN tok THEN FALSE
    ELSE LET tokenData == tok[serverName] IN
         IF TruthyTime(tokenData.expiresAt) /\ now > tokenData.expiresAt
         THEN tokenData.refresh_token # Null
         ELSE TRUE

\* getTokenStatus
GetTokenStatus(tok, serverName) ==
    IF serverName \notin DOMAIN tok THEN [authenticated |-> FALSE]
    ELSE LET tokenData == tok[serverName]
             isExpired == TruthyTime(tokenData.expiresAt) /\ now > tokenData.expiresAt
             canRefresh == Truthy(tokenData.refresh_token)
         IN [authenticated |-> ~isExpired \/ canRefresh,
             hasAccessToken |-> Truthy(tokenData.access_token),
             hasRefreshToken |-> canRefresh,
             isExpired |-> isExpired,
             expiresAt |-> tokenData.expiresAt,
             grantType |-> IF Truthy(tokenData.grantType) THEN tokenData.grantType
                                                          ELSE "authorization_code"]

\* a revokeTokens whose catch block passes the error on and keeps the record
RevokeTokensPropagating(s, serverName, t) ==
    IF t.threw # Null THEN t
    ELSE [s |-> [t.s EXCEPT !.tok = MapDelete(t.s.tok, serverName)], threw |-> Null]

\* the try block of revokeTokens: the revocation request is sent when the
\* metadata cached for the record's serverUrl names a revocation endpoint;
\* the fetch throws on a network error, and its status is not looked at
RevokeRequest(s, serverName, answer) ==
    IF /\ serverName \in DOMAIN s.tok
       /\ s.tok[serverName].serverUrl \in DOMAIN s.meta
       /\ Truthy(s.meta[s.tok[serverName].serverUrl].revocation_endpoint)
    THEN [s |-> Sent(s, [kind |-> "revoke",
                         endpoint |-> s.meta[s.tok[serverName].serverUrl].revocation_endpoint,
                         token |-> s.tok[serverName].access_token,
                         client_id |-> s.tok[serverName].clientId,
                         answer |-> answer]),
          threw |-> IF answer = "neterr" THEN "neterr" ELSE Null]
    ELSE [s |-> s, threw |-> Null]

\* revokeTokens after its try block ended as t: the catch block logs the
\* error, and the record is deleted either way
RevokeTokensCaught(s, serverName, t) ==
    [s |-> [t.s EXCEPT !.tok = MapDelete(t.s.tok, serverName)], threw |-> Null]

\* revokeTokens: [s, threw], with the answer to its revocation request
RevokeTokensAnswered(s, serverName, answer) ==
    RevokeTokensCaught(s, serverName, RevokeRequest(s, serverName, answer))

\* revokeTokens inside another handler, where the revocation endpoint answers 2xx
RevokeTokens(s, serverName) == RevokeTokensAnswered(s, serverName, "ok").s

\* a sweep that drops every pending authorization, expired or not
CleanupAllAuthorizations(s) == [s EXCEPT !.pend = << >>]

\* cleanupExpiredAuthorizations
CleanupExpiredAuthorizations(s) ==
    [s EXCEPT !.pend = [st \in {x \in DOMAIN s.pend : ~(now > s.pend[x].expiresAt)} |-> s.pend[st]]]

\* -------------------------------------------------------- MCPClientEnhanced

OAuthTypes == {"oauth2", "oauth2-client-credentials"}

\* normalizeConfig of the manager: value || default for every field
NormalizeConfig(config) ==
    [url |-> config.url,
     transport |-> IF Truthy(config.transport) THEN config.transport ELSE "sse",
     authType |-> IF Truthy(config.authType) THEN config.authType ELSE "none",
     apiKey |-> config.apiKey,
     bearerToken |-> config.bearerToken,
     oauth |-> [clientId |-> config.oauth.clientId,
                clientSecret |-> config.oauth.clientSecret,
                scopes |-> config.oauth.scopes,
                clientMetadata |-> config.oauth.clientMetadata,
                metadataUrl |-> config.oauth.metadataUrl,
                callbackUrl |-> config.oauth.callbackUrl]]

\* new MCPClientEnhanced(name, config)
NewClient(config) ==
    [config |-> config, connected |-> FALSE, client |-> FALSE, authorization |-> Null]

\* isConnected: this.connected && this.client !== null
IsConnected(client) == client.connected /\ client.client

\* a client that never asks for authorization
NeverRequiresOAuthAuthorization(s, name, client) == FALSE

\* requiresOAuthAuthorization of the client
ClientRequiresOAuthAuthorization(s, name, client) ==
    IF client.config.authType # "oauth2" THEN FALSE ELSE ~HasValidTokens(s.tok, name)

\* initiateOAuthFlow of the client, called with no options
ClientInitiateOAuthFlow(s, name, client, env) ==
    InitiateAuthorizationFlow(s, name, client.config.url, client.config.oauth, env)

\* performClientCredentialsGrant of the client: [s, threw]
ClientPerformClientCredentialsGrant(s, name, client, env) ==
    IF client.config.authType # "oauth2-client-credentials"
    THEN [s |-> s, threw |-> "ConfigurationError"]
    ELSE IF ~Truthy(client.config.oauth.clientId) \/ ~Truthy(client.config.oauth.clientSecret)
    THEN [s |-> s, threw |-> "ConfigurationError"]
    ELSE ClientCredentialsGrant(s, name, client.config.url, client.config.oauth.clientId,
                                client.config.oauth.clientSecret, client.config.oauth.scopes,
                                env)

NoHeaders(s) == [s |-> s, threw |-> Null, authorization |-> Null, apiKey |-> Null]

\* buildAuthHeaders for the two OAuth types, once getAccessToken has answered g
BearerOf(g) ==
    IF Truthy(g.ret)
    THEN [s |-> g.s, threw |-> Null, authorization |-> "Bearer " \o g.ret, apiKey |-> Null]
    ELSE [s |-> g.s, threw |-> "NoValidToken", authorization |-> Null, apiKey |-> Null]

\* buildAuthHeaders: [s, threw, authorization, apiKey]
BuildAuthHeaders(s, name, client, env) ==
    IF client.config.authType = "api-key"
    THEN [NoHeaders(s) EXCEPT !.apiKey = client.config.apiKey]
    ELSE IF client.config.authType = "bearer-token"
    THEN [NoHeaders(s) EXCEPT !.authorization = IF Truthy(client.config.bearerToken)
                                                  THEN "Bearer " \o client.config.bearerToken
                                                  ELSE Null]
    ELSE IF client.config.authType \in OAuthTypes
    THEN BearerOf(GetAccessToken(s, name, env))
    ELSE NoHeaders(s)

\* the error connect throws after the initiation i, or the error of the initiation
AuthorizationRequired(client, i, withExpiry) ==
    IF i.threw # Null
    THEN [s |-> i.s, client |-> client, threw |-> i.threw, authInfo |-> NoAuthInfo]
    ELSE [s |-> i.s, client |-> client, threw |-> "OAuthAuthorizationRequired",
          authInfo |-> IF withExpiry THEN i.ret ELSE [i.ret EXCEPT !.expiresIn = NoNumber]]

\* connect once the headers h are built: new Client, createTransport, client.connect
Transport(client, env, h) ==
    LET created == [client EXCEPT !.client = TRUE]
        request == [kind |-> "connect", authorization |-> h.authorization,
                    apiKey |-> h.apiKey, answer |-> env.conn]
    IN IF h.threw # Null
       THEN [s |-> h.s, client |-> client, threw |-> h.threw, authInfo |-> NoAuthInfo]
       ELSE IF ~client.config.url.parses
       THEN [s |-> h.s, client |-> created, threw |-> "TypeError", authInfo |-> NoAuthInfo]
       ELSE IF env.conn = "ok"
       THEN [s |-> Sent(h.s, request),
             client |-> [created EXCEPT !.connected = TRUE, !.authorization = h.authorization],
             threw |-> Null, authInfo |-> NoAuthInfo]
       ELSE [s |-> Sent(h.s, request),
             client |-> [created EXCEPT !.authorization = h.authorization],
             threw |-> IF env.conn = "401" THEN "401" ELSE "ConnectionError",
             authInfo |-> NoAuthInfo]

\* connect from building the headers on
ConnectTransport(s, name, client, env) ==
    Transport(client, env, BuildAuthHeaders(s, name, client, env))

\* probeForOAuthRequirements: a 401 or 403 answer means authorization is required;
\* a fetch that throws (always, for a URL that does not parse) means it is not
ProbeForOAuthRequirements(client, env) ==
    client.config.url.parses /\ env.disc.probe \in {"header", "status"}

\* connect for a client without authentication: the probe, then the upgrade
\* to oauth2 and the initiation, or the transport
Probed(s, name, client, env) ==
    IF ProbeForOAuthRequirements(client, env)
    THEN AuthorizationRequired([client EXCEPT !.config.authType = "oauth2"],
                               ClientInitiateOAuthFlow(s, name,
                                   [client EXCEPT !.config.authType = "oauth2"], env),
                               TRUE)
    ELSE ConnectTransport(s, name, client, env)

\* the try block of connect after the client credentials grant, if any
Granting(name, client, env, grant) ==
    IF grant.threw # Null
    THEN [s |-> grant.s, client |-> client, threw |-> grant.threw, authInfo |-> NoAuthInfo]
    ELSE IF ClientRequiresOAuthAuthorization(grant.s, name, client)
    THEN AuthorizationRequired(client, ClientInitiateOAuthFlow(grant.s, name, client, env),
                               TRUE)
    ELSE IF client.config.authType = "none"
    THEN Probed(Sent(grant.s, [kind |-> "probe"]), name, client, env)
    ELSE ConnectTransport(grant.s, name, client, env)

\* the try block of connect: [s, client, threw, authInfo]
ConnectTry(s, name, client, env) ==
    IF client.config.authType = "oauth2-client-credentials" /\ ~HasValidTokens(s.tok, name)
    THEN Granting(name, client, env, ClientPerformClientCredentialsGrant(s, name, client, env))
    ELSE Granting(name, client, env, [s |-> s, threw |-> Null])

\* the catch block of connect, entered with the outcome t of the try block
ConnectCatch(name, t, env) ==
    IF t.threw = "401" /\ t.client.config.authType = "oauth2"
    THEN AuthorizationRequired(t.client,
                               ClientInitiateOAuthFlow(RevokeTokens(t.s, name), name,
                                                       t.client, env),
                               FALSE)
    ELSE IF t.threw = "401" /\ t.client.config.authType = "oauth2-client-credentials"
    THEN [s |-> RevokeTokens(t.s, name), client |-> [t.client EXCEPT !.connected = FALSE],
          threw |-> t.threw, authInfo |-> NoAuthInfo]
    ELSE [s |-> t.s, client |-> [t.client EXCEPT !.connected = FALSE], threw |-> t.threw,
          authInfo |-> t.authInfo]

\* connect after its try block ended as t
Tried(name, t, env) == IF t.threw = Null THEN t ELSE ConnectCatch(name, t, env)

\* connect: [s, client, threw, authInfo]
Connect(s, name, client, env) == Tried(name, ConnectTry(s, name, client, env), env)

\* ensureConnected
EnsureConnected(s, name, client, env) ==
    IF IsConnected(client)
    THEN [s |-> s, client |-> client, threw |-> Null, authInfo |-> NoAuthInfo]
    ELSE Connect(s, name, client, env)

\* handleError after the reconnect c, whose error it swallows
Reconnected(c) == [s |-> c.s, client |-> c.client]

\* handleError after the refresh r: the reconnect, unless the refresh threw
Recovering(name, client, env, r) ==
    IF r.threw # Null THEN [s |-> r.s, client |-> client]
    ELSE Reconnected(Connect(r.s, name, client, env))

\* handleError: [s, client]; it never throws
HandleError(s, name, client, error, env) ==
    IF error # "401" THEN [s |-> s, client |-> client]
    ELSE IF client.config.authType \notin OAuthTypes
    THEN [s |-> s, client |-> [client EXCEPT !.connected = FALSE]]
    ELSE Recovering(name, [client EXCEPT !.connected = FALSE], env,
                    RefreshAccessToken(s, name, env))

\* an operation that is sent again once handleError has restored the session
WrappedReplayed(h) ==
    IF h.client.connected /\ h.client.client
    THEN [s |-> Sent(h.s, [kind |-> "operation", answer |-> "ok"]), client |-> h.client,
          threw |-> Null, authInfo |-> [authorizationUrl |-> [endpoint |-> Null], state |-> 0,
                                        expiresIn |-> NoNumber]]
    ELSE [s |-> h.s, client |-> h.client, threw |-> "MCPError",
          authInfo |-> [authorizationUrl |-> [endpoint |-> Null], state |-> 0,
                        expiresIn |-> NoNumber]]

\* the operation's error after handleError ended as h
Wrapped(h) == [s |-> h.s, client |-> h.client, threw |-> "MCPError", authInfo |-> NoAuthInfo]

\* the operation once ensureConnected has ended as e
Operation(name, env, e) ==
    IF e.threw # Null THEN e
    ELSE IF env.op = "ok"
    THEN [s |-> Sent(e.s, [kind |-> "operation", answer |-> env.op]), client |-> e.client,
          threw |-> Null, authInfo |-> NoAuthInfo]
    ELSE Wrapped(HandleError(Sent(e.s, [kind |-> "operation", answer |-> env.op]), name,
                             e.client, env.op, env))

\* listTools and the six operations shaped like it: [s, client, threw, authInfo]
ProtocolOperation(s, name, client, env) ==
    Operation(name, env, EnsureConnected(s, name, client, env))

\* disconnect of the client: [client, threw]; close is what client.close() does
ClientDisconnect(client, close) ==
    IF client.client /\ close = "fail"
    THEN [client |-> client, threw |-> "CloseFailed"]
    ELSE [client |-> [client EXCEPT !.connected = FALSE, !.client = FALSE,
                                    !.authorization = Null],
          threw |-> Null]

\* --------------------------------------------- MCPConnectionManagerEnhanced

\* getConnection after connect ended as c on the new client
Opened(conns, name, c) ==
    IF c.threw # Null
    THEN [s |-> c.s, conns |-> conns, threw |-> c.threw, authInfo |-> c.authInfo]
    ELSE [s |-> c.s, conns |-> MapSet(conns, name, c.client), threw |-> Null,
          authInfo |-> NoAuthInfo]

\* getConnection: [s, conns, threw, authInfo]
GetConnection(s, conns, name, env) ==
    IF name \in DOMAIN conns /\ IsConnected(conns[name])
    THEN [s |-> s, conns |-> conns, threw |-> Null, authInfo |-> NoAuthInfo]
    ELSE IF name \notin DOMAIN configs
    THEN [s |-> s, conns |-> MapDelete(conns, name), threw |-> "NotRegistered",
          authInfo |-> NoAuthInfo]
    ELSE Opened(MapDelete(conns, name), name,
                Connect(s, name, NewClient(configs[name]), env))

\* getConnection from its call to await client.connect(), where it waits with
\* the client it has made: [conns, threw, waits]
GetConnectionToConnect(conns, name) ==
    IF name \in DOMAIN conns /\ IsConnected(conns[name])
    THEN [conns |-> conns, threw |-> Null, waits |-> FALSE]
    ELSE IF name \notin DOMAIN configs
    THEN [conns |-> MapDelete(conns, name), threw |-> "NotRegistered", waits |-> FALSE]
    ELSE [conns |-> MapDelete(conns, name), threw |-> Null, waits |-> TRUE]

OptionNames == {"clientId", "clientSecret", "scopes", "clientMetadata", "metadataUrl",
                "callbackUrl"}

\* the options initiateOAuthFlow of the manager passes on:
\* { key: config.oauth?.key || options.key, ..., ...options }
MergedOptions(config, options) ==
    [k \in OptionNames |-> IF k \in DOMAIN options THEN options[k] ELSE config.oauth[k]]

\* initiateOAuthFlow of the manager: [s, threw, ret]
ManagerInitiateOAuthFlow(s, name, options, env) ==
    IF name \notin DOMAIN configs THEN [s |-> s, threw |-> "NotRegistered", ret |-> NoAuthInfo]
    ELSE InitiateAuthorizationFlow(s, name, configs[name].url,
                                   MergedOptions(configs[name], options), env)

\* performClientCredentialsGrant of the manager: [s, threw]
ManagerPerformClientCredentialsGrant(s, name, env) ==
    IF name \notin DOMAIN configs THEN [s |-> s, threw |-> "NotRegistered"]
    ELSE IF ~Truthy(configs[name].oauth.clientId) \/ ~Truthy(configs[name].oauth.clientSecret)
    THEN [s |-> s, threw |-> "ConfigurationError"]
    ELSE ClientCredentialsGrant(s, name, configs[name].url, configs[name].oauth.clientId,
                                configs[name].oauth.clientSecret, configs[name].oauth.scopes,
                                env)

\* disconnect of the manager: [conns, threw]
Disconnect(conns, name, close) ==
    IF name \notin DOMAIN conns THEN [conns |-> conns, threw |-> Null]
    ELSE LET d == ClientDisconnect(conns[name], close)
         IN IF d.threw # Null THEN [conns |-> conns, threw |-> d.threw]
            ELSE [conns |-> MapDelete(conns, name), threw |-> Null]

\* revokeOAuthTokens of the manager: [s, conns, threw]; the tokens are
\* revoked before the disconnect, whose error it passes on
RevokeOAuthTokens(s, conns, name, close) ==
    [s |-> RevokeTokens(s, name), conns |-> Disconnect(conns, name, close).conns,
     threw |-> Disconnect(conns, name, close).threw]

\* ------------------------------------------------- the protocol routes

\* error.name of what a handler threw: the authorization error and the
\* wrapped operation error are named; every other error of the model is a
\* plain Error or a TypeError
ErrorName(threw) ==
    IF threw \in {"OAuthAuthorizationRequired", "MCPError"} THEN threw ELSE "Error"

\* errorHandler: the status of the response for an error of a given name
ErrorHandler(errName) ==
    IF errName = "ValidationError" THEN "400"
    ELSE IF errName = "MCPError" THEN "502"
    ELSE IF errName = "ConnectionError" THEN "503"
    ELSE "500"

\* the catch block of a protocol route: handleOAuthError, then next(error)
RouteCatch(threw) ==
    IF ErrorName(threw) = "OAuthAuthorizationRequired" THEN "401"
    ELSE ErrorHandler(ErrorName(threw))

\* a protocol route once the operation on the connection ended as o
RouteOperated(conns, name, o) ==
    [s |-> o.s, conns |-> MapSet(conns, name, o.client), threw |-> o.threw,
     status |-> IF o.threw = Null THEN "200" ELSE RouteCatch(o.threw)]

\* a protocol route once getConnection ended as g
RouteConnected(name, env, g) ==
    IF g.threw # Null
    THEN [s |-> g.s, conns |-> g.conns, threw |-> g.threw, status |-> RouteCatch(g.threw)]
    ELSE RouteOperated(g.conns, name, ProtocolOperation(g.s, name, g.conns[name], env))

\* a protocol route (tools, tools/call, resources, resources/read, prompts,
\* prompts/get): [s, conns, threw, status]; valid is whether the body names
\* the tool, URI or prompt the route asks for
ProtocolRoute(s, conns, name, valid, env) ==
    IF ~valid THEN [s |-> s, conns |-> conns, threw |-> Null, status |-> "400"]
    ELSE RouteConnected(name, env, GetConnection(s, conns, name, env))

\* the call of client.close() that the client's disconnect makes when it
\* holds an SDK client, as an entry of the handler's log
Closing(client, name, close) ==
    IF client.client THEN << [kind |-> "close", name |-> name, answer |-> close] >> ELSE << >>

\* the close call of the manager's disconnect(name), if it makes one
Closed(conns, name, close) ==
    IF name \in DOMAIN conns THEN Closing(conns[name], name, close) ELSE << >>

\* removeServer after its disconnect ended as d: revokeTokens, configs.delete
RemoveServerAfter(s, conns, name, d) ==
    IF d.threw # Null THEN [s |-> s, conns |-> d.conns, configs |-> configs, threw |-> d.threw]
    ELSE [s |-> RevokeTokens(s, name), conns |-> d.conns,
          configs |-> MapDelete(configs, name), threw |-> Null]

\* removeServer of the manager: [s, conns, configs, threw]
RemoveServer(s, conns, name, close) ==
    RemoveServerAfter(s, conns, name, Disconnect(conns, name, close))

\* { ...existing, ...config, oauth: { ...existing.oauth, ...config.oauth } }:
\* a key the update carries replaces the stored value
MergedConfig(existing, config) ==
    [k \in DOMAIN existing |->
        IF k = "oauth"
        THEN [j \in DOMAIN existing.oauth |->
                 IF "oauth" \in DOMAIN config /\ j \in DOMAIN config.oauth
                 THEN config.oauth[j] ELSE existing.oauth[j]]
        ELSE IF k \in DOMAIN config THEN config[k] ELSE existing[k]]

\* updateServer after its disconnect ended as d
UpdateServerAfter(name, config, d) ==
    IF d.threw # Null THEN [conns |-> d.conns, configs |-> configs, threw |-> d.threw]
    ELSE [conns |-> d.conns,
          configs |-> MapSet(configs, name,
                             NormalizeConfig(MergedConfig(configs[name], config))),
          threw |-> Null]

\* updateServer of the manager: [conns, configs, threw]
UpdateServer(conns, name, config, close) ==
    IF name \notin DOMAIN configs
    THEN [conns |-> conns, configs |-> configs, threw |-> "NotRegistered"]
    ELSE UpdateServerAfter(name, config, Disconnect(conns, name, close))

\* the names of a set, one after the other
RECURSIVE InOrder(_)
InOrder(names) ==
    IF names = {} THEN << >>
    ELSE LET n == CHOOSE x \in names : TRUE IN << n >> \o InOrder(names \ {n})

\* the close calls made for the clients named in order, as log entries
RECURSIVE CloseAttempts(_, _, _)
CloseAttempts(conns, closes, order) ==
    IF Len(order) = 0 THEN << >>
    ELSE Closing(conns[Head(order)], Head(order), closes[Head(order)])
         \o CloseAttempts(conns, closes, Tail(order))

\* a disconnectAll that stops at the first close that fails
DisconnectAllStopping(conns, closes) ==
    LET order == InOrder(DOMAIN conns)
        failing == {i \in DOMAIN order : closes[order[i]] = "fail"}
        first == CHOOSE i \in failing : \A j \in failing : i <= j
    IN IF failing = {}
       THEN [conns |-> << >>, threw |-> Null, reqs |-> CloseAttempts(conns, closes, order)]
       ELSE [conns |-> conns, threw |-> "CloseFailed",
             reqs |-> CloseAttempts(conns, closes, SubSeq(order, 1, first))]

\* disconnectAll: [conns, threw, reqs].  client.disconnect() is called on every
\* client of the map, each rejection is caught where it is made, and the map
\* is cleared after all of them have settled.
DisconnectAll(conns, closes) ==
    [conns |-> << >>, threw |-> Null,
     reqs |-> CloseAttempts(conns, closes, InOrder(DOMAIN conns))]

\* getServerStatus: null for a name that is not registered
GetServerStatus(s, conns, cfgs, name) ==
    IF name \notin DOMAIN cfgs THEN [registered |-> FALSE]
    ELSE [registered |-> TRUE,
          name |-> name,
          url |-> cfgs[name].url,
          transport |-> cfgs[name].transport,
          authType |-> cfgs[name].authType,
          connected |-> name \in DOMAIN conns /\ IsConnected(conns[name]),
          oauth |-> IF cfgs[name].authType \in OAuthTypes
                      THEN << GetTokenStatus(s.tok, name) >> ELSE << >>]

\* ------------------------------------------------------------------ inputs

Names == {"S"}

NoClientMetadata == [redirect_uris |-> << >>]

NoOAuth == [clientId |-> Null, clientSecret |-> Null, scopes |-> << >>,
            clientMetadata |-> NoClientMetadata, metadataUrl |-> Null, callbackUrl |-> Null]

\* server configurations as registerServer is given them
OAuthDynamic ==
    [url |-> GoodUrl, transport |-> Null, authType |-> "oauth2", apiKey |-> Null,
     bearerToken |-> Null, oauth |-> NoOAuth]
OAuthCustomMetadata ==
    [OAuthDynamic EXCEPT !.oauth.metadataUrl = "https://meta/doc"]
OAuthConfigured ==
    [url |-> GoodUrl, transport |-> "sse", authType |-> "oauth2", apiKey |-> Null,
     bearerToken |-> Null,
     oauth |-> [NoOAuth EXCEPT !.clientId = "cid", !.clientSecret = "sec",
                               !.metadataUrl = "https://meta/doc",
                               !.callbackUrl = "https://app/cb"]]
\* a server without client id whose callback URL is configured
OAuthCustomCallback == [OAuthDynamic EXCEPT !.oauth.callbackUrl = "https://app/cb"]
OAuthBadUrl ==
    [url |-> BadUrl, transport |-> Null, authType |-> "oauth2", apiKey |-> Null,
     bearerToken |-> Null, oauth |-> [NoOAuth EXCEPT !.clientId = "cid"]]
Unauthenticated ==
    [url |-> GoodUrl, transport |-> Null, authType |-> Null, apiKey |-> Null,
     bearerToken |-> Null, oauth |-> NoOAuth]
StaticBearer ==
    [url |-> GoodUrl, transport |-> Null, authType |-> "bearer-token", apiKey |-> Null,
     bearerToken |-> "tok", oauth |-> NoOAuth]
ClientCredentials ==
    [url |-> GoodUrl, transport |-> Null, authType |-> "oauth2-client-credentials",
     apiKey |-> Null, bearerToken |-> Null,
     oauth |-> [NoOAuth EXCEPT !.clientId = "cid", !.clientSecret = "sec"]]

\* the options a caller of initiateOAuthFlow passes: none, or the four keys the
\* route always passes, undefined where the request body has no value
NoOptions == << >>
RouteOptions(clientId) ==
    [clientId |-> clientId, clientSecret |-> Null, scopes |-> << >>,
     clientMetadata |-> NoClientMetadata]

\* the states a caller of the callback can present: the ones handed out so
\* far, and 0, which is never handed out
PresentableStates == 0 .. generated

\* what the metadata URLs and the probed server answer during one handler
Unreachable ==
    [fetch |-> [k \in CandidateKinds |-> "neterr"], probe |-> "neterr", header |-> NoHeader,
     docRegistration |-> FALSE, docRevocation |-> FALSE, docEndpoints |-> TRUE]
WellKnown ==
    [fetch |-> [k \in CandidateKinds |-> IF k = "oauth-as" THEN "ok" ELSE "non2xx"],
     probe |-> "ok", header |-> NoHeader, docRegistration |-> TRUE, docRevocation |-> TRUE,
     docEndpoints |-> TRUE]
\* the same, with the document of a custom metadata URL served as well
CustomServed == [WellKnown EXCEPT !.fetch["custom"] = "ok"]
\* the same, with the server answering a plain GET with 401 and a challenge
Challenging == [WellKnown EXCEPT !.probe = "header", !.header.realm = "realm"]

\* an answer of the token endpoint
Failure(status) ==
    [status |-> status, access_token |-> Null, refresh_token |-> Null, expires_in |-> NoNumber]
Body(access_token, refresh_token, expires_in) ==
    [status |-> "ok", access_token |-> access_token, refresh_token |-> refresh_token,
     expires_in |-> expires_in]

\* the answers of the token endpoint to the requests of one handler, in order
Once(answers) == {<< a >> : a \in answers}
Twice(first, second) == {<< a, b >> : a \in first, b \in second}

NoAnswer == << Failure("neterr") >>

Env(disc, reg, toks, conn, op) ==
    [disc |-> disc, reg |-> reg, toks |-> toks, conn |-> conn, op |-> op]

\* ----------------------------------------------------------------- actions

Store ==
    [pend |-> pendingAuthorizations, tok |-> tokens, meta |-> serverMetadata,
     reg |-> clientRegistrations, ctr |-> generated, reqs |-> << >>]

\* the handler's store becomes the state; a handler that draws a new state
\* value runs only while fewer than max have been drawn
CommitUpTo(s, max) ==
    /\ s.ctr <= max \/ s.ctr = generated
    /\ pendingAuthorizations' = s.pend
    /\ tokens' = s.tok
    /\ serverMetadata' = s.meta
    /\ clientRegistrations' = s.reg
    /\ generated' = s.ctr

Commit(s) == CommitUpTo(s, MaxStates)

\* what the handler found when it was called: for a callback the pending
\* record of its state, for a handler that reads the token store the record of
\* its server; << >> when there is none
Before(op, name, state) ==
    IF op = "completeOAuthFlow"
    THEN IF state \in DOMAIN pendingAuthorizations THEN << pendingAuthorizations[state] >>
                                                   ELSE << >>
    ELSE IF op \in {"getAccessToken", "refreshAccessToken", "getConnection", "operation",
                     "revokeTokens"}
            /\ name \in DOMAIN tokens
    THEN << tokens[name] >>
    ELSE << >>

\* the record of the handler that ran last: what it was called with, what it
\* found, how it ended and the requests it sent with their answers; for a
\* callback, also whether its state had been presented to a callback before;
\* held are the handlers that wait for an answer once this one ran or paused,
\* handed the authorization endpoints callers were given so far
RanHandingOut(op, name, state, threw, ret, reqs, held, handed) ==
    /\ last' = [op |-> op, name |-> name, state |-> state, threw |-> threw, ret |-> ret,
                reqs |-> reqs, before |-> Before(op, name, state),
                again |-> op = "completeOAuthFlow" /\ state \in completed]
    /\ completed' = IF op = "completeOAuthFlow" THEN completed \cup {state} ELSE completed
    /\ inflight' = held
    /\ handedOut' = handed
    /\ UNCHANGED unswept

\* the same for a handler that hands no authorization URL to its caller
RanHolding(op, name, state, threw, ret, reqs, held) ==
    RanHandingOut(op, name, state, threw, ret, reqs, held, handedOut)

\* the same for a handler that ran from its call to its end
Ran(op, name, state, threw, ret, reqs) ==
    RanHolding(op, name, state, threw, ret, reqs, inflight)

Init ==
    /\ now = 0
    /\ pendingAuthorizations = << >>
    /\ tokens = << >>
    /\ serverMetadata = << >>
    /\ clientRegistrations = << >>
    /\ generated = 0
    /\ configs = << >>
    /\ connections = << >>
    /\ completed = {}
    /\ last = [op |-> "none", name |-> Null, state |-> 0, threw |-> Null, ret |-> Null,
               reqs |-> << >>, before |-> << >>, again |-> FALSE]
    /\ unswept = [s |-> [pend |-> << >>, tok |-> << >>, meta |-> << >>, reg |-> << >>,
                         ctr |-> 0, reqs |-> << >>],
                  threw |-> Null, ret |-> NoAuthInfo]
    /\ inflight = << >>
    /\ handedOut = << >>

\* time passes between two handlers
Tick(step, max) ==
    /\ now + step <= max
    /\ now' = now + step
    /\ Ran("tick", Null, 0, Null, Null, << >>)
    /\ UNCHANGED << pendingAuthorizations, tokens, serverMetadata, clientRegistrations,
                    generated, configs, connections >>

\* registerServer(name, config) for the names of a set
RegisterServerAs(ServerNames, Configs) ==
    \E name \in ServerNames, config \in Configs :
        /\ configs' = MapSet(configs, name, NormalizeConfig(config))
        /\ Ran("registerServer", name, 0, Null, Null, << >>)
        /\ UNCHANGED << now, pendingAuthorizations, tokens, serverMetadata,
                        clientRegistrations, generated, connections >>

\* registerServer(name, config)
RegisterServer(Configs) == RegisterServerAs(Names, Configs)

\* initiateOAuthFlow(name, options) of the manager for the names of a set,
\* while fewer than max state values have been drawn
InitiateOAuthFlowOf(ServerNames, Options, Discoveries, Registrations, max) ==
    \E name \in ServerNames, options \in Options, disc \in Discoveries,
       reg \in Registrations :
        \E r \in {ManagerInitiateOAuthFlow(Store, name, options,
                                          Env(disc, reg, NoAnswer, "ok", "ok"))} :
           /\ CommitUpTo(r.s, max)
           /\ Ran("initiateOAuthFlow", name, r.ret.state, r.threw, Null, r.s.reqs)
           /\ UNCHANGED << now, configs, connections >>

\* initiateOAuthFlow(name, options) of the manager, whose caller keeps the
\* authorization endpoint it is given for the state
InitiateOAuthFlowHandingOut(Options, Discoveries, Registrations) ==
    \E name \in Names, options \in Options, disc \in Discoveries, reg \in Registrations :
        \E r \in {ManagerInitiateOAuthFlow(Store, name, options,
                                          Env(disc, reg, NoAnswer, "ok", "ok"))} :
           /\ Commit(r.s)
           /\ RanHandingOut("initiateOAuthFlow", name, r.ret.state, r.threw, Null, r.s.reqs,
                            inflight,
                            IF r.threw = Null
                            THEN MapSet(handedOut, r.ret.state,
                                        r.ret.authorizationUrl.endpoint)
                            ELSE handedOut)
           /\ UNCHANGED << now, configs, connections >>

\* initiateOAuthFlow(name, options) of the manager
InitiateOAuthFlow(Options, Discoveries, Registrations) ==
    InitiateOAuthFlowOf(Names, Options, Discoveries, Registrations, MaxStates)

\* completeOAuthFlow(code, state): handleCallback
CompleteOAuthFlow(Discoveries, Answers) ==
    \E state \in PresentableStates, disc \in Discoveries, toks \in Once(Answers) :
        \E r \in {HandleCallback(Store, "code", state, Env(disc, "neterr", toks, "ok", "ok"))} :
           /\ Commit(r.s)
           /\ Ran("completeOAuthFlow",
                  IF state \in DOMAIN pendingAuthorizations
                  THEN pendingAuthorizations[state].serverName ELSE Null,
                  state, r.threw, Null, r.s.reqs)
           /\ UNCHANGED << now, configs, connections >>

\* performClientCredentialsGrant(name) of the manager, for the names of a set
PerformClientCredentialsGrantOf(ServerNames, Discoveries, Answers) ==
    \E name \in ServerNames, disc \in Discoveries, toks \in Once(Answers) :
        \E r \in {ManagerPerformClientCredentialsGrant(Store, name,
                                                      Env(disc, "neterr", toks, "ok", "ok"))} :
           /\ Commit(r.s)
           /\ Ran("performClientCredentialsGrant", name, 0, r.threw, Null, r.s.reqs)
           /\ UNCHANGED << now, configs, connections >>

\* performClientCredentialsGrant(name) of the manager
PerformClientCredentialsGrant(Discoveries, Answers) ==
    PerformClientCredentialsGrantOf(Names, Discoveries, Answers)

\* getAccessToken(name) of the OAuthManager, for the names of a set
GetAccessTokenCallOf(ServerNames, Discoveries, Answers) ==
    \E name \in ServerNames, disc \in Discoveries, toks \in Once(Answers) :
        \E r \in {GetAccessToken(Store, name, Env(disc, "neterr", toks, "ok", "ok"))} :
           /\ Commit(r.s)
           /\ Ran("getAccessToken", name, 0, Null, r.ret, r.s.reqs)
           /\ UNCHANGED << now, configs, connections >>

\* getAccessToken(name) of the OAuthManager
GetAccessTokenCall(Discoveries, Answers) == GetAccessTokenCallOf(Names, Discoveries, Answers)

\* refreshAccessToken(name) of the OAuthManager, for the names of a set
RefreshAccessTokenCallOf(ServerNames, Discoveries, Answers) ==
    \E name \in ServerNames, disc \in Discoveries, toks \in Once(Answers) :
        \E r \in {RefreshAccessToken(Store, name, Env(disc, "neterr", toks, "ok", "ok"))} :
           /\ Commit(r.s)
           /\ Ran("refreshAccessToken", name, 0, r.threw, Null, r.s.reqs)
           /\ UNCHANGED << now, configs, connections >>

\* refreshAccessToken(name) of the OAuthManager
RefreshAccessTokenCall(Discoveries, Answers) ==
    RefreshAccessTokenCallOf(Names, Discoveries, Answers)

\* revokeOAuthTokens(name) of the manager, for the names of a set
RevokeOAuthTokensCallOf(ServerNames) ==
    \E name \in ServerNames, close \in {"ok", "fail"} :
        \E r \in {RevokeOAuthTokens(Store, connections, name, close)} :
           /\ Commit(r.s)
           /\ connections' = r.conns
           /\ Ran("revokeOAuthTokens", name, 0, r.threw, Null, r.s.reqs)
           /\ UNCHANGED << now, configs >>

\* revokeOAuthTokens(name) of the manager
RevokeOAuthTokensCall == RevokeOAuthTokensCallOf(Names)

\* revokeTokens(name) of the OAuthManager
RevokeTokensCall(Revocations) ==
    \E name \in Names, answer \in Revocations :
        \E r \in {RevokeTokensAnswered(Store, name, answer)} :
           /\ Commit(r.s)
           /\ Ran("revokeTokens", name, 0, r.threw, Null, r.s.reqs)
           /\ UNCHANGED << now, configs, connections >>

\* cleanupExpiredAuthorizations()
CleanupExpiredAuthorizationsCall ==
    /\ Commit(CleanupExpiredAuthorizations(Store))
    /\ Ran("cleanupExpiredAuthorizations", Null, 0, Null, Null, << >>)
    /\ UNCHANGED << now, configs, connections >>

\* the OAuthManager of the run without the sweeps, as a handler finds it
Unswept == [unswept.s EXCEPT !.reqs = << >>]

\* a handler that ended as r here ended as u in the run without the sweeps
RanBeside(op, name, state, r, u) ==
    /\ last' = [op |-> op, name |-> name, state |-> state, threw |-> r.threw, ret |-> r.ret,
                reqs |-> r.s.reqs, before |-> Before(op, name, state),
                again |-> op = "completeOAuthFlow" /\ state \in completed]
    /\ completed' = IF op = "completeOAuthFlow" THEN completed \cup {state} ELSE completed
    /\ unswept' = [s |-> u.s, threw |-> u.threw, ret |-> u.ret]
    /\ UNCHANGED << inflight, handedOut >>

\* initiateOAuthFlow(name, options) of the manager, in both runs
InitiateOAuthFlowBeside(ServerNames, Options, Discoveries, Registrations, max) ==
    \E name \in ServerNames, options \in Options, disc \in Discoveries,
       reg \in Registrations :
        \E r \in {ManagerInitiateOAuthFlow(Store, name, options,
                                          Env(disc, reg, NoAnswer, "ok", "ok"))},
           u \in {ManagerInitiateOAuthFlow(Unswept, name, options,
                                          Env(disc, reg, NoAnswer, "ok", "ok"))} :
           /\ CommitUpTo(r.s, max)
           /\ RanBeside("initiateOAuthFlow", name, r.ret.state, r, u)
           /\ UNCHANGED << now, configs, connections >>

\* a callback: [s, threw, ret], with nothing returned
Called(c) == [s |-> c.s, threw |-> c.threw, ret |-> NoAuthInfo]

\* completeOAuthFlow(code, state) of the manager, in both runs
CompleteOAuthFlowBeside(Discoveries, Answers) ==
    \E state \in PresentableStates, disc \in Discoveries, toks \in Once(Answers) :
        \E r \in {HandleCallback(Store, "code", state, Env(disc, "neterr", toks, "ok", "ok"))},
           u \in {HandleCallback(Unswept, "code", state,
                                 Env(disc, "neterr", toks, "ok", "ok"))} :
           /\ Commit(r.s)
           /\ RanBeside("completeOAuthFlow",
                        IF state \in DOMAIN pendingAuthorizations
                        THEN pendingAuthorizations[state].serverName ELSE Null,
                        state, Called(r), Called(u))
           /\ UNCHANGED << now, configs, connections >>

\* the calls that can be under way at the same time
Calls == {"first", "second"}

\* a handler is under way as call, or call is free
Waiting(call, op) == call \in DOMAIN inflight /\ inflight[call].op = op

\* completeOAuthFlow(code, state): handleCallback from the call to the token
\* request, or to the error it throws before
HandleCallbackBegins(Discoveries) ==
    \E call \in Calls \ DOMAIN inflight, state \in PresentableStates, disc \in Discoveries :
        \E d \in {IF state \in DOMAIN pendingAuthorizations
                  THEN DiscoverServerMetadata(pendingAuthorizations[state].serverUrl, Null,
                                              disc)
                  ELSE [threw |-> FALSE]} :
        \E r \in {HandleCallbackToFetch(Store, "code", state, d)} :
           /\ Commit(r.s)
           /\ RanHolding(IF r.waits THEN "handleCallback" ELSE "completeOAuthFlow",
                         IF state \in DOMAIN pendingAuthorizations
                         THEN pendingAuthorizations[state].serverName ELSE Null,
                         state, r.threw, Null, << >>,
                         IF r.waits
                         THEN MapSet(inflight, call,
                                     [op |-> "completeOAuthFlow", state |-> state,
                                      pending |-> pendingAuthorizations[state], d |-> d])
                         ELSE inflight)
           /\ UNCHANGED << now, configs, connections >>

\* the token endpoint answers a callback that waits: handleCallback from the
\* answer to its end
HandleCallbackAnswered(Answers) ==
    \E call \in DOMAIN inflight, answer \in Answers :
        /\ Waiting(call, "completeOAuthFlow")
        /\ \E r \in {Exchange(Store, "code", inflight[call].state, inflight[call].pending,
                              answer, inflight[call].d)} :
             /\ Commit(r.s)
             /\ RanHolding("completeOAuthFlow", inflight[call].pending.serverName,
                           inflight[call].state, r.threw, Null, r.s.reqs,
                           MapDelete(inflight, call))
             /\ UNCHANGED << now, configs, connections >>

\* refreshAccessToken(name) from the call to the token request, or to the
\* error it throws before
RefreshAccessTokenBegins(Discoveries) ==
    \E call \in Calls \ DOMAIN inflight, name \in Names, disc \in Discoveries :
        \E d \in {IF name \in DOMAIN tokens
                  THEN DiscoverServerMetadata(tokens[name].serverUrl, Null, disc)
                  ELSE [threw |-> FALSE]} :
        \E r \in {RefreshToFetch(Store, name, d)} :
           /\ Commit(r.s)
           /\ RanHolding(IF r.waits THEN "refresh" ELSE "refreshAccessToken", name, 0,
                         r.threw, Null, << >>,
                         IF r.waits
                         THEN MapSet(inflight, call,
                                     [op |-> "refreshAccessToken", name |-> name,
                                      tokenData |-> tokens[name], d |-> d])
                         ELSE inflight)
           /\ UNCHANGED << now, configs, connections >>

\* the token endpoint answers a refresh that waits: refreshAccessToken from
\* the answer to its end
RefreshAccessTokenAnswered(Answers) ==
    \E call \in DOMAIN inflight, answer \in Answers :
        /\ Waiting(call, "refreshAccessToken")
        /\ \E r \in {Refresh(Store, inflight[call].name, inflight[call].tokenData, answer,
                             inflight[call].d)} :
             /\ Commit(r.s)
             /\ RanHolding("refreshAccessToken", inflight[call].name, 0, r.threw, Null,
                           r.s.reqs, MapDelete(inflight, call))
             /\ UNCHANGED << now, configs, connections >>

\* getConnection(name) from the call to await client.connect(), or to its end
\* when it connects to nothing
GetConnectionBegins ==
    \E call \in Calls \ DOMAIN inflight, name \in Names :
        \E r \in {GetConnectionToConnect(connections, name)} :
           /\ connections' = r.conns
           /\ RanHolding(IF r.waits THEN "connect" ELSE "getConnection", name, 0, r.threw,
                         NoAuthInfo, << >>,
                         IF r.waits
                         THEN MapSet(inflight, call,
                                     [op |-> "getConnection", name |-> name,
                                      client |-> NewClient(configs[name])])
                         ELSE inflight)
           /\ UNCHANGED << now, pendingAuthorizations, tokens, serverMetadata,
                           clientRegistrations, generated, configs >>

\* the connect of a getConnection that waits comes to its end: getConnection
\* from there on
GetConnectionConnected(Discoveries, Registrations, Answers, Connects) ==
    \E call \in DOMAIN inflight, disc \in Discoveries, reg \in Registrations,
       toks \in Answers, conn \in Connects :
        /\ Waiting(call, "getConnection")
        /\ \E r \in {Opened(connections, inflight[call].name,
                            Connect(Store, inflight[call].name, inflight[call].client,
                                    Env(disc, reg, toks, conn, "ok")))} :
             /\ Commit(r.s)
             /\ connections' = r.conns
             /\ RanHolding("getConnection", inflight[call].name, r.authInfo.state, r.threw,
                           r.authInfo, r.s.reqs, MapDelete(inflight, call))
             /\ UNCHANGED << now, configs >>

\* getConnection(name) for the names of a set, while fewer than max state
\* values have been drawn; last.ret holds what the error thrown carries
GetConnectionCallUpTo(ServerNames, Discoveries, Registrations, Answers, Connects, max) ==
    \E name \in ServerNames, disc \in Discoveries, reg \in Registrations, toks \in Answers,
       conn \in Connects :
        \E r \in {GetConnection(Store, connections, name, Env(disc, reg, toks, conn, "ok"))} :
           /\ CommitUpTo(r.s, max)
           /\ connections' = r.conns
           /\ Ran("getConnection", name, r.authInfo.state, r.threw, r.authInfo, r.s.reqs)
           /\ UNCHANGED << now, configs >>

\* getConnection(name) for the names of a set
GetConnectionCallOf(ServerNames, Discoveries, Registrations, Answers, Connects) ==
    GetConnectionCallUpTo(ServerNames, Discoveries, Registrations, Answers, Connects,
                          MaxStates)

\* getConnection(name)
GetConnectionCall(Discoveries, Registrations, Answers, Connects) ==
    GetConnectionCallOf(Names, Discoveries, Registrations, Answers, Connects)

\* listTools() and the like on the client the connection map holds for name
ProtocolOperationCall(Discoveries, Registrations, Answers, Connects, Operations) ==
    \E name \in DOMAIN connections, disc \in Discoveries, reg \in Registrations,
       toks \in Answers, conn \in Connects, op \in Operations :
        \E r \in {ProtocolOperation(Store, name, connections[name],
                                   Env(disc, reg, toks, conn, op))} :
           /\ Commit(r.s)
           /\ connections' = MapSet(connections, name, r.client)
           /\ Ran("operation", name, r.authInfo.state, r.threw, Null, r.s.reqs)
           /\ UNCHANGED << now, configs >>

\* disconnect(name) of the manager, for the names of a set
DisconnectCallOf(ServerNames) ==
    \E name \in ServerNames, close \in {"ok", "fail"} :
        \E r \in {Disconnect(connections, name, close)} :
           /\ connections' = r.conns
           /\ Ran("disconnect", name, 0, r.threw, Null, << >>)
           /\ UNCHANGED << now, pendingAuthorizations, tokens, serverMetadata,
                           clientRegistrations, generated, configs >>

\* disconnect(name) of the manager
DisconnectCall == DisconnectCallOf(Names)

\* updateServer(name, config)
UpdateServerCall(ServerNames, Updates) ==
    \E name \in ServerNames, config \in Updates, close \in {"ok", "fail"} :
        \E r \in {UpdateServer(connections, name, config, close)} :
           /\ connections' = r.conns
           /\ configs' = r.configs
           /\ Ran("updateServer", name, 0, r.threw, Null, Closed(connections, name, close))
           /\ UNCHANGED << now, pendingAuthorizations, tokens, serverMetadata,
                           clientRegistrations, generated >>

\* removeServer(name)
RemoveServerCall(ServerNames) ==
    \E name \in ServerNames, close \in {"ok", "fail"} :
        \E r \in {RemoveServer(Store, connections, name, close)} :
           /\ Commit(r.s)
           /\ connections' = r.conns
           /\ configs' = r.configs
           /\ Ran("removeServer", name, 0, r.threw, Null,
                  Closed(connections, name, close) \o r.s.reqs)
           /\ UNCHANGED now

\* disconnectAll()
DisconnectAllCall ==
    \E closes \in [DOMAIN connections -> {"ok", "fail"}] :
        \E r \in {DisconnectAll(connections, closes)} :
           /\ connections' = r.conns
           /\ Ran("disconnectAll", Null, 0, r.threw, Null, r.reqs)
           /\ UNCHANGED << now, pendingAuthorizations, tokens, serverMetadata,
                           clientRegistrations, generated, configs >>

\* a request to a protocol route; last.before holds what the request named
ProtocolRouteCall(ServerNames, Valid, Discoveries, Registrations, Answers, Connects, Ops) ==
    \E name \in ServerNames, valid \in Valid, disc \in Discoveries, reg \in Registrations,
       toks \in Answers, conn \in Connects, op \in Ops :
        \E r \in {ProtocolRoute(Store, connections, name, valid,
                               Env(disc, reg, toks, conn, op))} :
           /\ Commit(r.s)
           /\ connections' = r.conns
           /\ last' = [op |-> "route", name |-> name, state |-> 0, threw |-> r.threw,
                       ret |-> r.status, reqs |-> r.s.reqs,
                       before |-> << [registered |-> name \in DOMAIN configs,
                                      valid |-> valid] >>,
                       again |-> FALSE]
           /\ UNCHANGED << now, configs, completed, unswept, inflight, handedOut >>

\* registerClient(serverUrl) with no client metadata; last.before holds the
\* argument of the call and last.ret the registration returned
RegisterClientCall(Urls, Discoveries, Registrations) ==
    \E serverUrl \in Urls, disc \in Discoveries, reg \in Registrations :
        \E r \in {RegisterClient(Store, serverUrl, NoClientMetadata,
                                Env(disc, reg, NoAnswer, "ok", "ok"))} :
           /\ Commit(r.s)
           /\ last' = [op |-> "registerClient", name |-> Null, state |-> 0, threw |-> Null,
                       ret |-> r.registration, reqs |-> r.s.reqs,
                       before |-> << [serverUrl |-> serverUrl] >>, again |-> FALSE]
           /\ UNCHANGED << now, connections, configs, completed, unswept, inflight, handedOut >>

\* the fetches of one discovery with what each was answered
Fetched(tried, env) ==
    [i \in DOMAIN tried |->
        [kind |-> tried[i].kind, url |-> tried[i].url,
         answer |-> IF tried[i].kind = "probe" THEN env.probe ELSE env.fetch[tried[i].kind]]]

\* discoverServerMetadata(serverUrl, customMetadataUrl); last.before holds the
\* arguments of the call
DiscoverServerMetadataCall(Urls, Customs, Envs) ==
    \E serverUrl \in Urls, customMetadataUrl \in Customs, env \in Envs :
        \E d \in {DiscoverServerMetadata(serverUrl, customMetadataUrl, env)} :
           /\ Commit(CacheMetadata(Store, serverUrl, d))
           /\ last' = [op |-> "discoverServerMetadata", name |-> Null, state |-> 0,
                       threw |-> IF d.threw THEN "TypeError" ELSE Null,
                       ret |-> d.metadata, reqs |-> Fetched(d.tried, env),
                       before |-> << [serverUrl |-> serverUrl,
                                      customMetadataUrl |-> customMetadataUrl] >>,
                       again |-> FALSE]
           /\ UNCHANGED << now, connections, configs, completed, unswept, inflight, handedOut >>

\* ---------------------------------------------------------- specifications

\* The authorization-code flow: initiations and callbacks, with the callback
\* arriving before, at and after the expiry of the pending record.
FlowAnswers ==
    {Failure("non2xx"), Failure("neterr"), Failure("nonjson"),
     Body("a1", "r1", 3), Body("a2", Null, NoNumber)}

Next ==
    \/ Tick(2, MaxTime)
    \/ RegisterServer({OAuthDynamic, OAuthConfigured})
    \/ InitiateOAuthFlow({NoOptions, RouteOptions(Null)}, {Unreachable, WellKnown},
                         {"client", "noClientId", "non2xx"})
    \/ CompleteOAuthFlow({WellKnown}, FlowAnswers)
    \/ CleanupExpiredAuthorizationsCall

Spec == Init /\ [][Next]_vars

\* the 2xx answers to a refresh: the same refresh token again, none, a rotated
\* one; a lifetime, none, a lifetime of zero
RefreshBodies ==
    {Body("a2", "r1", 1), Body("a2", Null, NoNumber), Body("a2", "r2", 0), Body("a2", "r2", 3)}

\* The token store: grants, reads, refreshes and revocations of one server's
\* record as it nears and passes its expiry.
NextToken ==
    \/ Tick(1, MaxTime)
    \/ RegisterServer({ClientCredentials})
    \/ PerformClientCredentialsGrant({WellKnown}, TokenBodies \cup {Failure("non2xx")})
    \/ GetAccessTokenCall({WellKnown}, TokenFailures \cup {Body("a2", Null, 3)})
    \/ RefreshAccessTokenCall({WellKnown}, TokenFailures \cup RefreshBodies)
    \/ RevokeOAuthTokensCall

SpecToken == Init /\ [][NextToken]_vars

\* The connections: servers that need authorization are connected to, flows
\* are completed, operations run on the sessions and meet 401 answers.
ConnAnswers == {Body("a1", "r1", 3), Body("a1", Null, 3), Body("a1", Null, 1)}
RefreshAnswers == {Failure("non2xx"), Body("a2", "r1", 1), Body("a2", "r1", 3)}

NextConn ==
    \/ Tick(3, MaxTime)
    \/ RegisterServer({OAuthDynamic, OAuthConfigured, OAuthBadUrl})
    \/ GetConnectionCall({WellKnown}, {"client", "non2xx"},
                         Once({Failure("neterr"), Body("a2", "r1", 3)}), {"ok", "401"})
    \/ CompleteOAuthFlow({WellKnown}, ConnAnswers)
    \/ ProtocolOperationCall({WellKnown}, {"client"},
                             Twice(RefreshAnswers, {Body("a1", "r1", 3)}),
                             {"ok"}, {"ok", "401"})
    \/ DisconnectCall

SpecConn == Init /\ [][NextConn]_vars

\* The session of one server: tokens are obtained by code exchange and by
\* client credentials grant, with lifetimes absent, zero, positive and
\* negative, and revoked with the revocation endpoint known or unknown.
SessionAnswers ==
    {Failure("non2xx"), Body("a1", "r1", 1), Body("a1", Null, NoNumber), Body("a2", Null, 0),
     Body("a2", Null, 0 - 1), Body("a2", "r1", 0 - 1)}

NextSession ==
    \/ Tick(2, MaxTime)
    \/ RegisterServer({OAuthConfigured})
    \/ InitiateOAuthFlow({NoOptions}, {WellKnown}, {"client"})
    \/ CompleteOAuthFlow({Unreachable, WellKnown}, SessionAnswers)
    \/ PerformClientCredentialsGrant({Unreachable, WellKnown}, SessionAnswers)
    \/ RevokeTokensCall({"ok", "non2xx", "neterr"})

SpecSession == Init /\ [][NextSession]_vars

\* The administration of two servers: they are registered, registered again,
\* updated and removed while connections to them are opened, go stale on a
\* 401 answer, are reopened and are closed, with closes that fail.
AdminNames == {"S", "T"}

Updates == {[bearerToken |-> "tok2"], [url |-> BadUrl, oauth |-> [clientId |-> "cid2"]]}

NextAdmin ==
    \/ RegisterServerAs(AdminNames, {StaticBearer, ClientCredentials})
    \/ GetConnectionCallOf(AdminNames, {WellKnown}, {"client"},
                           Once({Body("a1", Null, NoNumber)}), {"ok"})
    \/ ProtocolOperationCall({WellKnown}, {"client"}, Once({Body("a1", Null, NoNumber)}),
                             {"ok"}, {"ok", "401"})
    \/ UpdateServerCall(AdminNames, Updates)
    \/ RemoveServerCall(AdminNames)
    \/ DisconnectAllCall

SpecAdmin == Init /\ [][NextAdmin]_vars

\* Discovery on its own: server URLs with a two-segment path, a one-segment
\* path, the root path and one that does not parse, with and without an
\* explicit metadata URL, against every kind of answer of the candidates and
\* of the probe.
RealmHeader == [NoHeader EXCEPT !.realm = "realm"]
TokenUriHeader == [NoHeader EXCEPT !.token_uri = "https://as/token"]

DiscoveryEnvs ==
    [fetch : {f \in [CandidateKinds -> {"ok", "non2xx", "neterr", "nonjson"}] :
                 /\ f["custom"] \in {"ok", "neterr"}
                 /\ f["oauth-as"] \in {"ok", "non2xx"}
                 /\ f["oauth-as-prefix"] \in {"ok", "nonjson"}},
     probe : {"neterr", "ok"}, header : {NoHeader},
     docRegistration : {TRUE}, docRevocation : {TRUE}, docEndpoints : {TRUE}]
    \cup [fetch : {[k \in CandidateKinds |-> "non2xx"]},
          probe : {"header"}, header : {RealmHeader, TokenUriHeader},
          docRegistration : {TRUE}, docRevocation : {TRUE}, docEndpoints : {TRUE}]
    \cup [fetch : {[k \in CandidateKinds |-> "ok"]},
          probe : {"ok"}, header : {NoHeader},
          docRegistration : {TRUE}, docRevocation : {TRUE}, docEndpoints : {FALSE}]

NextDiscovery ==
    DiscoverServerMetadataCall({GoodUrl, OneSegmentUrl, RootUrl, BadUrl},
                               {Null, "https://meta/doc"}, DiscoveryEnvs)

SpecDiscovery == Init /\ [][NextDiscovery]_vars

\* Authorization flows of two servers that are pending at the same time, are
\* completed, expire and are cleaned up.
NextPending ==
    \/ Tick(2, MaxTime)
    \/ RegisterServerAs(AdminNames, {OAuthConfigured})
    \/ InitiateOAuthFlowOf(AdminNames, {NoOptions}, {Unreachable, WellKnown}, {"client"},
                           MaxPending)
    \/ CompleteOAuthFlow({WellKnown}, {Failure("non2xx"), Body("a1", Null, 3)})
    \/ CleanupExpiredAuthorizationsCall

SpecPending == Init /\ [][NextPending]_vars

\* The request boundary: protocol routes are requested for servers that are
\* registered or not, with bodies that are valid or not, and the servers need
\* authorization or answer.
NextRoutes ==
    \/ Tick(3, MaxTime)
    \/ RegisterServer({OAuthConfigured, StaticBearer})
    \/ ProtocolRouteCall(Names, BOOLEAN, {WellKnown}, {"client"},
                         Once({Body("a2", "r1", 3)}), {"ok", "neterr"}, {"ok", "401"})
    \/ CompleteOAuthFlow({WellKnown}, {Body("a1", "r1", 3), Body("a1", Null, 1)})

SpecRoutes == Init /\ [][NextRoutes]_vars

\* Authorization on connect: servers registered for oauth2 or without
\* authentication are connected to while they ask for authorization, by the
\* probe's answer or by a 401 of the transport, and flows are completed.
NextAuth ==
    \/ RegisterServer({OAuthConfigured, Unauthenticated})
    \/ GetConnectionCallUpTo(Names, {WellKnown, Challenging}, {"client"},
                             Once({Body("a2", "r1", 3)}), {"ok", "401"}, MaxPending)
    \/ CompleteOAuthFlow({WellKnown}, {Failure("non2xx"), Body("a1", "r1", 3)})
    \/ RevokeOAuthTokensCall

SpecAuth == Init /\ [][NextAuth]_vars

\* Dynamic registration: clients are registered, directly and on behalf of
\* authorization flows, at registration endpoints that answer with a client
\* id, without one, with an error, or not at all.
RegistrationAnswers == {"client", "noClientId", "non2xx", "neterr"}

NextRegistration ==
    \/ RegisterServer({OAuthDynamic, OAuthCustomCallback, OAuthBadUrl})
    \/ RegisterClientCall({GoodUrl, RootUrl, BadUrl}, {WellKnown, Unreachable, Challenging},
                          RegistrationAnswers)
    \/ InitiateOAuthFlow({NoOptions}, {WellKnown, Unreachable}, RegistrationAnswers)
    \/ CompleteOAuthFlow({WellKnown}, {Failure("non2xx"), Body("a1", Null, 3)})

SpecRegistration == Init /\ [][NextRegistration]_vars

\* A server with client credentials whose token endpoint grants every request,
\* with a lifetime above the refresh buffer, below it, or none: connections
\* are opened as the tokens age, operations run on them and they are closed.
GrantBodies == {Body("a1", Null, 3), Body("a1", Null, 1), Body("a1", Null, NoNumber)}

NextGrant ==
    \/ Tick(1, MaxTime)
    \/ RegisterServer({ClientCredentials})
    \/ GetConnectionCall({WellKnown}, {"client"}, Once(GrantBodies), {"ok"})
    \/ ProtocolOperationCall({WellKnown}, {"client"}, Once(GrantBodies), {"ok"}, {"ok", "401"})
    \/ DisconnectCall

SpecGrant == Init /\ [][NextGrant]_vars

\* The sweep beside the run without it: the same flows are initiated and
\* completed, at the same times and with the same answers, on a manager whose
\* expired pending authorizations are swept now and then and on one that is
\* never swept.
NextSweep ==
    \/ Tick(2, MaxTime)
    \/ RegisterServer({OAuthConfigured})
    \/ InitiateOAuthFlowBeside(Names, {NoOptions}, {WellKnown}, {"client"}, MaxPending)
    \/ CompleteOAuthFlowBeside({WellKnown}, {Failure("non2xx"), Body("a1", Null, 3)})
    \/ CleanupExpiredAuthorizationsCall

SpecSweep == Init /\ [][NextSweep]_vars

\* Two servers with the same URL and the same client credentials: each of
\* them is registered, updated and removed, authorized, granted tokens, read,
\* refreshed and revoked, connected to and disconnected, in every order.
FrameAnswers == {Failure("non2xx"), Body("a2", "r1", 1)}

NextFrame ==
    \/ RegisterServerAs(AdminNames, {ClientCredentials})
    \/ UpdateServerCall(AdminNames, {[bearerToken |-> "tok2"]})
    \/ RemoveServerCall(AdminNames)
    \/ GetConnectionCallOf(AdminNames, {WellKnown}, {"client"}, Once({Body("a1", "r1", 1)}),
                           {"ok", "401"})
    \/ DisconnectCallOf(AdminNames)
    \/ InitiateOAuthFlowOf(AdminNames, {NoOptions}, {WellKnown}, {"client"}, MaxStates)
    \/ PerformClientCredentialsGrantOf(AdminNames, {WellKnown}, {Body("a1", "r1", 1)})
    \/ GetAccessTokenCallOf(AdminNames, {WellKnown}, FrameAnswers)
    \/ RefreshAccessTokenCallOf(AdminNames, {WellKnown}, FrameAnswers)
    \/ RevokeOAuthTokensCallOf(AdminNames)

SpecFrame == Init /\ [][NextFrame]_vars

\* Removal in the middle of a flow: a server is registered, a flow is
\* initiated for it, the server is removed and the callback of the flow
\* arrives afterwards.
NextRemoval ==
    \/ Tick(2, MaxTime)
    \/ RegisterServer({OAuthConfigured})
    \/ InitiateOAuthFlow({NoOptions}, {WellKnown}, {"client"})
    \/ RemoveServerCall(Names)
    \/ CompleteOAuthFlow({WellKnown}, {Failure("non2xx"), Body("a1", "r1", 3)})

SpecRemoval == Init /\ [][NextRemoval]_vars

\* Whole flows against an authorization server that serves its well-known
\* document and the document of the configured metadata URL: servers with a
\* client id or without one, with a metadata URL or without one.
NextFlow ==
    \/ Tick(2, MaxTime)
    \/ RegisterServer({OAuthDynamic, OAuthCustomMetadata, OAuthConfigured})
    \/ InitiateOAuthFlowHandingOut({NoOptions}, {CustomServed}, {"client"})
    \/ CompleteOAuthFlow({CustomServed}, {Failure("non2xx"), Body("a1", "r1", 3)})

SpecFlow == Init /\ [][NextFlow]_vars

\* Flows initiated by callers that supply no client id: the manager called
\* with no options, and called by POST /initiate/:serverName with a body
\* that names none of the four parameters.
NextOptions ==
    \/ Tick(2, MaxTime)
    \/ RegisterServer({OAuthDynamic, OAuthConfigured})
    \/ InitiateOAuthFlow({NoOptions, RouteOptions(Null)}, {WellKnown}, {"client"})
    \/ CompleteOAuthFlow({WellKnown}, {Failure("non2xx"), Body("a1", "r1", 3)})

SpecOptions == Init /\ [][NextOptions]_vars

\* Two callbacks under way at once: a flow is initiated and the callbacks for
\* its state, and for a state nobody was given, arrive while another callback
\* waits for the token endpoint.
NextCallbacks ==
    \/ Tick(2, MaxTime)
    \/ RegisterServer({OAuthConfigured})
    \/ InitiateOAuthFlow({NoOptions}, {WellKnown}, {"client"})
    \/ HandleCallbackBegins({WellKnown})
    \/ HandleCallbackAnswered({Failure("non2xx"), Body("a1", "r1", 3), Body("a2", Null, 3)})

SpecCallbacks == Init /\ [][NextCallbacks]_vars

\* Two getConnection calls under way at once for a server with a static
\* token or with client credentials: connections are opened, refused, go
\* stale on a 401 answer and are closed while another call waits for its
\* connect.
NextConnecting ==
    \/ RegisterServer({StaticBearer, ClientCredentials})
    \/ GetConnectionBegins
    \/ GetConnectionConnected({WellKnown}, {"client"}, Once({Body("a1", Null, NoNumber)}),
                              {"ok", "neterr"})
    \/ ProtocolOperationCall({WellKnown}, {"client"}, Once({Body("a1", Null, NoNumber)}),
                             {"neterr"}, {"ok", "401"})
    \/ DisconnectCall

SpecConnecting == Init /\ [][NextConnecting]_vars

\* Two refreshes under way at once for one server: its record is granted with
\* a refresh token, and refreshes are sent and answered, with a rotated
\* refresh token, without one, or with an error status, while another refresh
\* waits for the token endpoint.
NextRefreshing ==
    \/ Tick(1, MaxTime)
    \/ RegisterServer({ClientCredentials})
    \/ PerformClientCredentialsGrant({WellKnown}, {Body("a1", "r1", 3)})
    \/ RefreshAccessTokenBegins({WellKnown})
    \/ RefreshAccessTokenAnswered({Failure("non2xx"), Body("a2", "r2", 3),
                                   Body("a2", Null, NoNumber)})

SpecRefreshing == Init /\ [][NextRefreshing]_vars

\* ------------------------------------------------------------------ claims

\* the token requests of a handler's log, and its refresh requests
TokenRequests(reqs) == {i \in DOMAIN reqs : reqs[i].kind = "token"}
RefreshRequests(reqs) ==
    {i \in TokenRequests(reqs) : reqs[i].grant_type = "refresh_token"}
ConnectRequests(reqs) == {i \in DOMAIN reqs : reqs[i].kind = "connect"}

\* what a callback with the given state would throw in the current state,
\* whatever the remote side answers
CallbackOutcomes(state) ==
    {HandleCallback(Store, "code", state,
                    Env(disc, "neterr", << answer >>, "ok", "ok")).threw :
        disc \in {Unreachable, WellKnown}, answer \in FlowAnswers}

\* C1: a state parameter is single-use.  Once a callback has run with a state,
\* whether it succeeded or failed, every later callback with the same state
\* throws the invalid-or-expired-state error and sends no token request.
SingleUseState ==
    [][(last'.op = "completeOAuthFlow" /\ last'.state \in completed)
         => (last'.threw = "InvalidState" /\ TokenRequests(last'.reqs) = {})]_vars

\* a second callback with a state that initiateAuthorizationFlow had handed out
SingleUseStateWitness ==
    /\ last.op = "completeOAuthFlow"
    /\ last.again
    /\ last.state \in 1 .. generated
    /\ last.threw = "InvalidState"
    /\ last.reqs = << >>

\* C2: a callback that arrives after the stored expiry of its pending record
\* throws the expiry error, sends no token request, stores no token and
\* removes the record, so that a callback with the same state then throws the
\* distinct invalid-or-expired-state error.
ExpiredCallback ==
    [][\A state \in PresentableStates :
         (/\ last'.op = "completeOAuthFlow"
          /\ last'.state = state
          /\ state \in DOMAIN pendingAuthorizations
          /\ now > pendingAuthorizations[state].expiresAt)
         => /\ last'.threw = "Expired"
            /\ last'.reqs = << >>
            /\ tokens' = tokens
            /\ state \notin DOMAIN pendingAuthorizations'
            /\ CallbackOutcomes(state)' = {"InvalidState"}]_vars

\* a callback that found its pending record expired
ExpiredCallbackWitness ==
    /\ last.op = "completeOAuthFlow"
    /\ last.before # << >>
    /\ now > last.before[1].expiresAt
    /\ last.threw = "Expired"
    /\ last.state \notin DOMAIN pendingAuthorizations

\* C3: a callback that finds a pending record that has not expired leaves the
\* record absent, on the success path and on every failure path; only on the
\* success path is a token record stored.
PendingConsumed ==
    [][\A state \in PresentableStates :
         (/\ last'.op = "completeOAuthFlow"
          /\ last'.state = state
          /\ state \in DOMAIN pendingAuthorizations
          /\ ~(now > pendingAuthorizations[state].expiresAt))
         => /\ state \notin DOMAIN pendingAuthorizations'
            /\ last'.threw # Null => tokens' = tokens
            /\ last'.threw = Null =>
                 /\ pendingAuthorizations[state].serverName \in DOMAIN tokens'
                 /\ tokens'[pendingAuthorizations[state].serverName].access_token
                      = last'.reqs[Len(last'.reqs)].answer.access_token]_vars

\* a callback whose token request was answered 2xx with a body that is not
\* JSON: the record it found is gone and no token is stored
PendingConsumedWitness ==
    /\ last.op = "completeOAuthFlow"
    /\ last.before # << >>
    /\ ~(now > last.before[1].expiresAt)
    /\ last.threw = "ExchangeFailed"
    /\ \E i \in TokenRequests(last.reqs) : last.reqs[i].answer.status = "nonjson"
    /\ last.state \notin DOMAIN pendingAuthorizations
    /\ last.before[1].serverName \notin DOMAIN tokens

\* C7: one getAccessToken call on a record with a refresh token and a finite
\* expiry less than the refresh buffer away, or past, sends exactly one
\* refresh request; when that request succeeds the call returns the access
\* token of the refreshed record, the one the answer carried.
RefreshOnce ==
    [][\A name \in Names :
         (/\ last'.op = "getAccessToken"
          /\ last'.name = name
          /\ name \in DOMAIN tokens
          /\ Truthy(tokens[name].refresh_token)
          /\ tokens[name].expiresAt # NoNumber
          /\ tokens[name].expiresAt - now < RefreshBuffer)
         => /\ Cardinality(RefreshRequests(last'.reqs)) = 1
            /\ TokenRequests(last'.reqs) = RefreshRequests(last'.reqs)
            /\ \A i \in RefreshRequests(last'.reqs) :
                 last'.reqs[i].answer.status = "ok"
                 => /\ name \in DOMAIN tokens'
                    /\ last'.ret = tokens'[name].access_token
                    /\ last'.ret = last'.reqs[i].answer.access_token]_vars

\* a getAccessToken that found a record due for refresh, refreshed it and
\* returned a token other than the one it found
RefreshOnceWitness ==
    /\ last.op = "getAccessToken"
    /\ last.before # << >>
    /\ Truthy(last.before[1].refresh_token)
    /\ last.before[1].expiresAt # NoNumber
    /\ last.before[1].expiresAt - now < RefreshBuffer
    /\ Cardinality(RefreshRequests(last.reqs)) = 1
    /\ last.ret = tokens[last.name].access_token
    /\ last.ret # last.before[1].access_token

\* C8: getAccessToken on a record whose expiry is past and which has no
\* refresh token returns null and deletes the record, so that hasValidTokens
\* is false afterwards.
ExpiredDropped ==
    [][\A name \in Names :
         (/\ last'.op = "getAccessToken"
          /\ last'.name = name
          /\ name \in DOMAIN tokens
          /\ tokens[name].expiresAt # NoNumber
          /\ now > tokens[name].expiresAt
          /\ ~Truthy(tokens[name].refresh_token))
         => /\ last'.ret = Null
            /\ last'.reqs = << >>
            /\ name \notin DOMAIN tokens'
            /\ ~HasValidTokens(tokens', name)]_vars

\* a getAccessToken that found an expired record without refresh token
ExpiredDroppedWitness ==
    /\ last.op = "getAccessToken"
    /\ last.before # << >>
    /\ last.before[1].expiresAt # NoNumber
    /\ now > last.before[1].expiresAt
    /\ ~Truthy(last.before[1].refresh_token)
    /\ last.ret = Null
    /\ last.name \notin DOMAIN tokens

\* C9: when no refresh is needed (no record, a record without expiry, or one
\* with more than the refresh buffer left) getAccessToken sends no request,
\* leaves the token store as it is and returns null, respectively the stored
\* access token.
NoRefreshNeeded ==
    [][\A name \in Names :
         (/\ last'.op = "getAccessToken"
          /\ last'.name = name
          /\ \/ name \notin DOMAIN tokens
             \/ tokens[name].expiresAt = NoNumber
             \/ tokens[name].expiresAt - now > RefreshBuffer)
         => /\ last'.reqs = << >>
            /\ tokens' = tokens
            /\ last'.ret = IF name \in DOMAIN tokens THEN tokens[name].access_token
                                                     ELSE Null]_vars

\* a getAccessToken that found a record without expiry and returned its token
NoRefreshNeededWitness ==
    /\ last.op = "getAccessToken"
    /\ last.before # << >>
    /\ last.before[1].expiresAt = NoNumber
    /\ last.reqs = << >>
    /\ last.ret = last.before[1].access_token
    /\ tokens[last.name] = last.before[1]

\* C10 as the specification states it: when the refresh inside getAccessToken
\* fails, getAccessToken returns null and the record is left exactly as it was.
RefreshFailureKeepsRecord ==
    [][\A name \in Names :
         (/\ last'.op = "getAccessToken"
          /\ last'.name = name
          /\ \E i \in RefreshRequests(last'.reqs) : last'.reqs[i].answer.status # "ok")
         => /\ last'.ret = Null
            /\ tokens' = tokens]_vars

\* C10 as the code has it: when the refresh inside getAccessToken fails,
\* getAccessToken returns null; the record is left exactly as it was when the
\* request met a network error or a body that is not JSON, and is deleted when
\* the token endpoint answered with an error status.
RefreshFailureByKind ==
    [][\A name \in Names :
         (/\ last'.op = "getAccessToken"
          /\ last'.name = name)
         => \A i \in RefreshRequests(last'.reqs) :
              /\ last'.reqs[i].answer.status # "ok" => last'.ret = Null
              /\ last'.reqs[i].answer.status \in {"neterr", "nonjson"} => tokens' = tokens
              /\ last'.reqs[i].answer.status = "non2xx"
                   => (name \in DOMAIN tokens /\ name \notin DOMAIN tokens')]_vars

\* a getAccessToken whose refresh met a network error: null, the record as found
RefreshFailureByKindWitness ==
    /\ last.op = "getAccessToken"
    /\ last.before # << >>
    /\ \E i \in RefreshRequests(last.reqs) : last.reqs[i].answer.status = "neterr"
    /\ last.ret = Null
    /\ last.name \in DOMAIN tokens
    /\ tokens[last.name] = last.before[1]

\* the dynamic registration requests of a handler's log
RegisterRequests(reqs) == {i \in DOMAIN reqs : reqs[i].kind = "register"}

\* getConnection would return the client the connection map holds
Live(name) == name \in DOMAIN connections /\ IsConnected(connections[name])

\* a registered oauth2 server without valid tokens
NeedsAuthorization(name) ==
    /\ name \in DOMAIN configs
    /\ configs[name].authType = "oauth2"
    /\ ~HasValidTokens(tokens, name)

AllAnswered(reqs) ==
    \A i \in DOMAIN reqs :
        /\ reqs[i].kind = "connect" => reqs[i].answer = "ok"
        /\ reqs[i].kind = "token" => reqs[i].answer.status = "ok"

\* C5: after a callback has succeeded for oauth2 server S, the next
\* getConnection(S) does not fail with the authorization-required error: it
\* opens the transport with the header Authorization: Bearer <the access
\* token of S's record> and records the connection, provided the server URL
\* parses and the remote side answers every request with success.
ConnectsAfterCallback ==
    [][\A name \in Names :
         (/\ last.op = "completeOAuthFlow"
          /\ last.threw = Null
          /\ last.name = name
          /\ last'.op = "getConnection"
          /\ last'.name = name
          /\ name \in DOMAIN configs
          /\ configs[name].authType = "oauth2"
          /\ configs[name].url.parses
          /\ ~Live(name)
          /\ AllAnswered(last'.reqs))
         => /\ last'.threw = Null
            /\ name \in DOMAIN tokens'
            /\ \E i \in ConnectRequests(last'.reqs) :
                 last'.reqs[i].authorization = "Bearer " \o tokens'[name].access_token
            /\ name \in DOMAIN connections'
            /\ IsConnected(connections'[name])]_vars

\* C6: when an operation on a live session of an OAuth server whose record
\* has a refresh token is answered 401, exactly one refresh request is sent
\* and at most one reconnect is attempted before the error is returned.
OneRefreshOn401 ==
    [][\A name \in Names :
         (/\ last'.op = "operation"
          /\ last'.name = name
          /\ Live(name)
          /\ connections[name].config.authType \in OAuthTypes
          /\ name \in DOMAIN tokens
          /\ Truthy(tokens[name].refresh_token)
          /\ \E i \in DOMAIN last'.reqs :
               last'.reqs[i].kind = "operation" /\ last'.reqs[i].answer = "401")
         => /\ Cardinality(RefreshRequests(last'.reqs)) = 1
            /\ Cardinality(ConnectRequests(last'.reqs)) <= 1]_vars

\* C11: a refreshAccessToken whose request the token endpoint answers with an
\* error status throws and deletes the server's token record; afterwards
\* hasValidTokens is false, and neither refreshAccessToken nor getAccessToken
\* sends a request with the old refresh token.
RefreshRejected ==
    [][\A name \in Names :
         (/\ last'.op = "refreshAccessToken"
          /\ last'.name = name
          /\ \E i \in RefreshRequests(last'.reqs) : last'.reqs[i].answer.status = "non2xx")
         => /\ last'.threw = "RefreshFailed"
            /\ name \in DOMAIN tokens
            /\ name \notin DOMAIN tokens'
            /\ ~HasValidTokens(tokens, name)'
            /\ \A answer \in TokenBodies :
                 /\ RefreshAccessToken(Store, name,
                                       Env(WellKnown, "neterr", << answer >>, "ok", "ok"))'
                      = [s |-> Store', threw |-> "NoRefreshToken"]
                 /\ GetAccessToken(Store, name,
                                   Env(WellKnown, "neterr", << answer >>, "ok", "ok"))'
                      = [s |-> Store', ret |-> Null]]_vars

\* a refreshAccessToken that found a record with a refresh token, was answered
\* with an error status, threw and left no record
RefreshRejectedWitness ==
    /\ last.op = "refreshAccessToken"
    /\ last.before # << >>
    /\ Truthy(last.before[1].refresh_token)
    /\ \E i \in RefreshRequests(last.reqs) : last.reqs[i].answer.status = "non2xx"
    /\ last.threw = "RefreshFailed"
    /\ last.name \notin DOMAIN tokens

\* C12 as the specification states it: hasValidTokens is true right after a
\* successful code exchange or client credentials grant for the server,
\* whatever the token response, and false right after revokeTokens.
ValidAfterGrant ==
    [][\A name \in Names :
         /\ (/\ last'.op \in {"completeOAuthFlow", "performClientCredentialsGrant"}
             /\ last'.name = name
             /\ last'.threw = Null)
            => HasValidTokens(tokens, name)'
         /\ (last'.op = "revokeTokens" /\ last'.name = name)
            => ~HasValidTokens(tokens, name)']_vars

\* C12 as the code has it: right after a successful code exchange or client
\* credentials grant hasValidTokens is true when the token response carries a
\* refresh token or a lifetime that is absent, zero or positive, and false
\* when it carries a negative lifetime and no refresh token; right after
\* revokeTokens it is false.
ValidAfterGrantWithLifetime ==
    [][\A name \in Names :
         /\ (/\ last'.op \in {"completeOAuthFlow", "performClientCredentialsGrant"}
             /\ last'.name = name
             /\ last'.threw = Null)
            => /\ Cardinality(TokenRequests(last'.reqs)) = 1
               /\ \A i \in TokenRequests(last'.reqs) :
                    HasValidTokens(tokens, name)'
                      = (\/ last'.reqs[i].answer.refresh_token # Null
                         \/ last'.reqs[i].answer.expires_in = NoNumber
                         \/ last'.reqs[i].answer.expires_in >= 0)
         /\ (last'.op = "revokeTokens" /\ last'.name = name)
            => ~HasValidTokens(tokens, name)']_vars

\* a code exchange that stored a token with a positive lifetime and no
\* stored token before it
ValidAfterGrantWithLifetimeWitness ==
    /\ last.op = "completeOAuthFlow"
    /\ last.threw = Null
    /\ \E i \in TokenRequests(last.reqs) : last.reqs[i].answer.expires_in > 0
    /\ last.name \in DOMAIN tokens
    /\ tokens[last.name].expiresAt > now
    /\ HasValidTokens(tokens, last.name)

\* C14: revokeTokens never throws and leaves no token record for the server,
\* whether or not a revocation endpoint is known for it and whether the
\* revocation request is answered 2xx, with an error status, or fails at the
\* network level.
RevokeNeverRaises ==
    [][\A name \in Names :
         (last'.op = "revokeTokens" /\ last'.name = name)
         => /\ last'.threw = Null
            /\ name \notin DOMAIN tokens'
            /\ Len(last'.reqs) <= 1
            /\ \A i \in DOMAIN last'.reqs : last'.reqs[i].kind = "revoke"]_vars

\* a revokeTokens that found a record, sent a revocation request that failed
\* at the network level, and left no record
RevokeNeverRaisesWitness ==
    /\ last.op = "revokeTokens"
    /\ last.before # << >>
    /\ \E i \in DOMAIN last.reqs : last.reqs[i].answer = "neterr"
    /\ last.threw = Null
    /\ last.name \notin DOMAIN tokens

\* a token record without refresh token whose expiry is past
Unusable(name) ==
    /\ name \in DOMAIN tokens
    /\ ~Truthy(tokens[name].refresh_token)
    /\ tokens[name].expiresAt # NoNumber
    /\ now > tokens[name].expiresAt

CloseRequests(reqs) == {i \in DOMAIN reqs : reqs[i].kind = "close"}

\* C15: whenever a getConnection or an operation opens a new transport for a
\* name whose entry in the connection map still holds an SDK client, it closes
\* that client before it opens the new transport.
ClosesBeforeReplacing ==
    [][\A name \in AdminNames :
         (/\ last'.op \in {"getConnection", "operation"}
          /\ last'.name = name
          /\ name \in DOMAIN connections
          /\ connections[name].client
          /\ ConnectRequests(last'.reqs) # {})
         => \E i \in CloseRequests(last'.reqs) :
               \A j \in ConnectRequests(last'.reqs) : i < j]_vars

\* C16: after removeServer of a registered name, getServerStatus answers null
\* for it and neither a token record nor a connection is left for it.
RemovedIsGone ==
    [][\A name \in AdminNames :
         (last'.op = "removeServer" /\ last'.name = name /\ name \in DOMAIN configs)
         => /\ ~(GetServerStatus(Store, connections, configs, name).registered)'
            /\ name \notin DOMAIN tokens'
            /\ name \notin DOMAIN connections']_vars

\* C17: the stored config of a registered name changes only in updateServer,
\* and whenever it changes no connection for the name that was in the map
\* before is in the map after.
ConfigReplacedOnlyByUpdate ==
    [][\A name \in AdminNames :
         (/\ name \in DOMAIN configs
          /\ name \in DOMAIN configs'
          /\ configs'[name] # configs[name])
         => /\ last'.op = "updateServer"
            /\ name \notin DOMAIN connections']_vars

\* C18: disconnectAll does not raise, leaves the connection map empty, and
\* calls close on the SDK client of every entry of the map, whatever the
\* other closes answer.
DisconnectAllClosesAll ==
    [][last'.op = "disconnectAll"
       => /\ last'.threw = Null
          /\ DOMAIN connections' = {}
          /\ \A name \in DOMAIN connections :
                connections[name].client
                => \E i \in CloseRequests(last'.reqs) : last'.reqs[i].name = name
          /\ \A i \in DOMAIN last'.reqs :
                /\ last'.reqs[i].kind = "close"
                /\ last'.reqs[i].name \in DOMAIN connections]_vars

\* a disconnectAll over two connections in which one close failed and the
\* other succeeded
DisconnectAllClosesAllWitness ==
    /\ last.op = "disconnectAll"
    /\ last.threw = Null
    /\ DOMAIN connections = {}
    /\ \E i, j \in CloseRequests(last.reqs) :
          /\ last.reqs[i].name # last.reqs[j].name
          /\ last.reqs[i].answer = "fail"
          /\ last.reqs[j].answer = "ok"

\* C19: a discoverServerMetadata never raises and returns a record that names
\* an authorization endpoint and a token endpoint, whatever the server URL and
\* whatever the candidates and the probe answer.
DiscoveryNeverRaises ==
    [][last'.op = "discoverServerMetadata"
       => /\ last'.threw = Null
          /\ Truthy(last'.ret.authorization_endpoint)
          /\ Truthy(last'.ret.token_endpoint)]_vars

\* the fetches the documentation lists for a server URL, in its order; the
\* one under the path prefix is among them when prefixed holds
Documented(serverUrl, customMetadataUrl, prefixed) ==
    (IF customMetadataUrl # Null
        THEN << [kind |-> "custom", url |-> customMetadataUrl] >> ELSE << >>)
    \o << [kind |-> "oauth-as",
           url |-> serverUrl.origin \o "/.well-known/oauth-authorization-server"] >>
    \o (IF prefixed
          THEN << [kind |-> "oauth-as-prefix",
                   url |-> serverUrl.origin \o PathPrefix(serverUrl)
                             \o "/.well-known/oauth-authorization-server"] >>
          ELSE << >>)
    \o << [kind |-> "openid", url |-> serverUrl.origin \o "/.well-known/openid-configuration"],
          [kind |-> "probe", url |-> serverUrl.origin] >>

\* the fetches reqs of a discovery that returned ret follow the order doc:
\* they are a prefix of it, none follows a 2xx JSON answer, they stop before
\* the probe only at such an answer, whose document is then returned, and
\* after the probe the record comes from the challenge or from the defaults
FollowsOrder(reqs, ret, doc) ==
    /\ Len(reqs) \in 1..Len(doc)
    /\ \A i \in DOMAIN reqs : reqs[i].kind = doc[i].kind /\ reqs[i].url = doc[i].url
    /\ \A i \in 1..(Len(reqs) - 1) : reqs[i].answer # "ok"
    /\ IF reqs[Len(reqs)].kind = "probe"
       THEN ret.source \in {"challenge", "default"}
       ELSE reqs[Len(reqs)].answer = "ok" /\ ret.source = reqs[Len(reqs)].kind

\* C20 as stated: every discovery that returns fetches in the documented
\* order, with the path-prefix candidate for every non-root path.
DocumentedOrderForNonRootPath ==
    [][(last'.op = "discoverServerMetadata" /\ last'.threw = Null)
       => FollowsOrder(last'.reqs, last'.ret,
                       Documented(last'.before[1].serverUrl,
                                  last'.before[1].customMetadataUrl,
                                  Len(last'.before[1].serverUrl.path) > 0))]_vars

\* C20: every discovery that returns fetches in the documented order, with
\* the path-prefix candidate exactly when the path has more than one segment.
DocumentedOrderForNonEmptyPrefix ==
    [][(last'.op = "discoverServerMetadata" /\ last'.threw = Null)
       => FollowsOrder(last'.reqs, last'.ret,
                       Documented(last'.before[1].serverUrl,
                                  last'.before[1].customMetadataUrl,
                                  Len(last'.before[1].serverUrl.path) > 1))]_vars

\* a discovery for a two-segment path with an explicit metadata URL whose
\* third fetch, under the path prefix, was the first to answer 2xx with JSON
DocumentedOrderForNonEmptyPrefixWitness ==
    /\ last.op = "discoverServerMetadata"
    /\ last.before[1].serverUrl = GoodUrl
    /\ Len(last.reqs) = 3
    /\ last.reqs[1].kind = "custom" /\ last.reqs[1].answer = "neterr"
    /\ last.reqs[2].kind = "oauth-as" /\ last.reqs[2].answer = "non2xx"
    /\ last.reqs[3].kind = "oauth-as-prefix" /\ last.reqs[3].answer = "ok"
    /\ last.ret.source = "oauth-as-prefix"

OperationRequests(reqs) == {i \in DOMAIN reqs : reqs[i].kind = "operation"}

\* C22: an operation that is answered 401 is sent once and fails to the
\* caller whatever the recovery does; when the recovery's reconnect has
\* succeeded the session is left connected; and an operation on a connected
\* session sends no connect request before it is sent.
NoReplayAfter401 ==
    [][\A name \in Names :
         (last'.op = "operation" /\ last'.name = name)
         => /\ \A i \in OperationRequests(last'.reqs) :
                  last'.reqs[i].answer = "401"
                  => /\ OperationRequests(last'.reqs) = {i}
                     /\ last'.threw = "MCPError"
                     /\ (\E j \in ConnectRequests(last'.reqs) :
                            i < j /\ last'.reqs[j].answer = "ok")
                        => IsConnected(connections'[name])
            /\ IsConnected(connections[name])
               => \A j \in ConnectRequests(last'.reqs) :
                     \E i \in OperationRequests(last'.reqs) : i < j]_vars

\* an operation answered 401 whose recovery refreshed the token and
\* reconnected: it failed to the caller and left the session connected
NoReplayAfter401Witness ==
    /\ last.op = "operation"
    /\ last.threw = "MCPError"
    /\ \E i \in OperationRequests(last.reqs) :
          /\ last.reqs[i].answer = "401"
          /\ \E j \in ConnectRequests(last.reqs) : i < j /\ last.reqs[j].answer = "ok"
    /\ RefreshRequests(last.reqs) # {}
    /\ IsConnected(connections[last.name])

ClientError(status) == status \in {"400", "401", "403", "404", "409", "422"}
ServerError(status) == status \in {"500", "502", "503"}

\* C23: a request to a protocol route that names a server which is not
\* registered, that fails validation, or that ends in the authorization error
\* is answered with a 4xx status and not with a 5xx status.
LocalFailuresAnswered4xx ==
    [][last'.op = "route"
       => ((\/ ~last'.before[1].valid
            \/ ~last'.before[1].registered
            \/ last'.threw = "OAuthAuthorizationRequired")
           => ClientError(last'.ret) /\ ~ServerError(last'.ret))]_vars

\* C24: every getConnection that ends in the authorization error carries an
\* authorization URL, the state of a pending record stored for the server and
\* an expiry, and sends no connect request after the error is made: its log
\* holds at most the one connect request whose 401 answer led to it.
AuthorizationErrorComplete ==
    [][\A name \in Names :
         (/\ last'.op = "getConnection"
          /\ last'.name = name
          /\ last'.threw = "OAuthAuthorizationRequired")
         => /\ Truthy(last'.ret.authorizationUrl.endpoint)
            /\ last'.ret.state = last'.state
            /\ last'.state \in DOMAIN pendingAuthorizations'
            /\ pendingAuthorizations'[last'.state].serverName = name
            /\ TruthyNum(last'.ret.expiresIn)
            /\ Cardinality(ConnectRequests(last'.reqs)) <= 1
            /\ \A i \in ConnectRequests(last'.reqs) : last'.reqs[i].answer = "401"]_vars

\* C28: once a valid token is stored for a server registered without
\* authentication, as it is after the flow started by the probe's 401 has been
\* completed, a getConnection for it does not end in the authorization error
\* again.
UpgradedConnectsWithToken ==
    [][\A name \in Names :
         (/\ last'.op = "getConnection"
          /\ last'.name = name
          /\ name \in DOMAIN configs
          /\ configs[name].authType = "none"
          /\ HasValidTokens(tokens, name)
          /\ ~(name \in DOMAIN connections /\ IsConnected(connections[name])))
         => last'.threw # "OAuthAuthorizationRequired"]_vars

\* C25: registerClient never throws; when its registration request is
\* answered 2xx with a client id it caches and returns the registration, and
\* otherwise it returns null and leaves the cache of registrations as it was.
RegistrationOnlyWithClientId ==
    [][last'.op = "registerClient"
       => /\ last'.threw = Null
          /\ IF \E i \in RegisterRequests(last'.reqs) : last'.reqs[i].answer = "client"
             THEN /\ last'.ret.found
                  /\ Truthy(last'.ret.client_id)
                  /\ last'.before[1].serverUrl \in DOMAIN clientRegistrations'
                  /\ clientRegistrations'[last'.before[1].serverUrl] = last'.ret
             ELSE /\ ~last'.ret.found
                  /\ clientRegistrations' = clientRegistrations]_vars

\* C26: a getAccessToken that finds a record without refresh token whose
\* expiry is not past returns the stored access token and leaves the record
\* in place, and one that deletes a record without refresh token found its
\* expiry past.
DroppedOnlyWhenExpired ==
    [][\A name \in Names :
         (/\ last'.op = "getAccessToken"
          /\ last'.name = name
          /\ name \in DOMAIN tokens
          /\ ~Truthy(tokens[name].refresh_token))
         => /\ (TruthyTime(tokens[name].expiresAt) /\ now <= tokens[name].expiresAt)
               => /\ last'.ret = tokens[name].access_token
                  /\ name \in DOMAIN tokens'
                  /\ tokens'[name] = tokens[name]
            /\ name \notin DOMAIN tokens'
               => (TruthyTime(tokens[name].expiresAt) /\ now > tokens[name].expiresAt)]_vars


\* the refresh of name that last' records succeeded, and the record it left
\* agrees with the old record and the response in every field but the expiry,
\* which is the one given
MergedWith(name, Expiry(_)) ==
    /\ name \in DOMAIN tokens
    /\ name \in DOMAIN tokens'
    /\ Cardinality(RefreshRequests(last'.reqs)) = 1
    /\ \A i \in RefreshRequests(last'.reqs) :
         /\ last'.reqs[i].answer.status = "ok"
         /\ tokens'[name].serverUrl = tokens[name].serverUrl
         /\ tokens'[name].clientId = tokens[name].clientId
         /\ tokens'[name].clientSecret = tokens[name].clientSecret
         /\ tokens'[name].grantType = tokens[name].grantType
         /\ tokens'[name].refresh_token =
              IF last'.reqs[i].answer.refresh_token # Null
              THEN last'.reqs[i].answer.refresh_token ELSE tokens[name].refresh_token
         /\ tokens'[name].access_token =
              IF last'.reqs[i].answer.access_token # Null
              THEN last'.reqs[i].answer.access_token ELSE tokens[name].access_token
         /\ tokens'[name].obtainedAt = now
         /\ tokens'[name].expiresAt = Expiry(last'.reqs[i].answer.expires_in)

\* issuance + expires_in, or null when the response carries none
ExpiryWhenPresent(expires_in) == IF expires_in # NoNumber THEN now + expires_in ELSE NoNumber

\* issuance + expires_in, or null when the response carries none or zero
ExpiryWhenPositive(expires_in) ==
    IF expires_in # NoNumber /\ expires_in # 0 THEN now + expires_in ELSE NoNumber

GrantedBeforeConnect ==
    [][\A name \in Names :
         (/\ last'.op = "getConnection"
          /\ last'.name = name
          /\ name \in DOMAIN configs
          /\ configs[name].authType = "oauth2-client-credentials"
          /\ Truthy(configs[name].oauth.clientId)
          /\ Truthy(configs[name].oauth.clientSecret)
          /\ ~(name \in DOMAIN connections /\ IsConnected(connections[name])))
         => /\ last'.threw # "NoValidToken"
            /\ \E i \in ConnectRequests(last'.reqs) :
                 last'.reqs[i].authorization # Null]_vars


\* C30: the registration request an authorization flow sends carries exactly
\* one redirect URI, the one the flow stores in its pending record and puts
\* into the authorization URL, also when the server has a callback URL of its
\* own configured.
RegistersFlowRedirect ==
    [][(/\ last'.op = "initiateOAuthFlow"
        /\ last'.threw = Null
        /\ last'.state \in DOMAIN pendingAuthorizations')
       => \A i \in RegisterRequests(last'.reqs) :
            last'.reqs[i].redirect_uris =
                << pendingAuthorizations'[last'.state].redirectUri >>]_vars


\* the registration cached for the URL of name, if any, has no client id
NoCachedClientId(name) ==
    \/ configs[name].url \notin DOMAIN clientRegistrations
    \/ ~Truthy(clientRegistrations[configs[name].url].client_id)

\* C31: initiateOAuthFlow for a server without configured client id, with no
\* client id cached for its URL and with a registration that yields none (not
\* possible, refused, failed, or answered without client id) fails with the
\* missing-client-id error and leaves the pending authorizations as they were.
NoClientIdNoPending ==
    [][\A name \in Names :
         (/\ last'.op = "initiateOAuthFlow"
          /\ last'.name = name
          /\ name \in DOMAIN configs
          /\ ~Truthy(configs[name].oauth.clientId)
          /\ NoCachedClientId(name)
          /\ \A i \in RegisterRequests(last'.reqs) : last'.reqs[i].answer # "client")
         => /\ last'.threw = "NoClientId"
            /\ pendingAuthorizations' = pendingAuthorizations]_vars

\* an initiation that asked for a registration, was answered without client
\* id and failed, with no pending authorization in the map
NoClientIdNoPendingWitness ==
    /\ last.op = "initiateOAuthFlow"
    /\ last.threw = "NoClientId"
    /\ \E i \in RegisterRequests(last.reqs) : last.reqs[i].answer = "noClientId"
    /\ pendingAuthorizations = << >>


Observed == last.op \in {"initiateOAuthFlow", "completeOAuthFlow"}

\* C33, as stated: whatever sweeps ran before, an initiation or a callback
\* returns what it returns in the run without sweeps, or throws the same
\* error, and the token store is the same in both runs.
SweepUnobservable ==
    /\ tokens = unswept.s.tok
    /\ Observed => /\ last.threw = unswept.threw
                   /\ last.ret = unswept.ret

\* C33, amended: the token stores are the same and an initiation returns the
\* same; a callback succeeds in both runs or fails in both, with the same
\* error except that a callback for a state whose pending authorization had
\* expired and was swept fails with the invalid-state error where the run
\* without sweeps fails with the expiry error.
SweepUnobservableButForExpiry ==
    /\ tokens = unswept.s.tok
    /\ Observed => /\ last.ret = unswept.ret
                   /\ \/ last.threw = unswept.threw
                      \/ /\ last.op = "completeOAuthFlow"
                         /\ last.threw = "InvalidState"
                         /\ unswept.threw = "Expired"

\* a callback after a sweep that succeeded in both runs, with a pending
\* authorization of the run without sweeps gone from the swept one
SweepUnobservableWitness ==
    /\ last.op = "completeOAuthFlow"
    /\ last.threw = Null
    /\ unswept.threw = Null
    /\ last.name \in DOMAIN tokens
    /\ DOMAIN pendingAuthorizations # DOMAIN unswept.s.pend


\* the entry of a map for a key: the value in a sequence, empty when absent
Entry(m, k) == IF k \in DOMAIN m THEN << m[k] >> ELSE << >>

\* the handlers that are addressed to one server by its name
Addressed ==
    {"registerServer", "updateServer", "removeServer", "getConnection", "disconnect",
     "initiateOAuthFlow", "performClientCredentialsGrant", "refreshAccessToken",
     "getAccessToken", "revokeOAuthTokens"}

OneExchangePerState ==
    \A c1 \in DOMAIN inflight, c2 \in DOMAIN inflight :
        (/\ Waiting(c1, "completeOAuthFlow")
         /\ Waiting(c2, "completeOAuthFlow")
         /\ inflight[c1].state = inflight[c2].state)
        => c1 = c2


\* C36: no getConnection opens a transport for a server whose connection in
\* the map is live: a getConnection that comes to its end while the map holds
\* a live connection for its server sends no connect request and leaves that
\* connection in the map.
NoSecondTransport ==
    [][\A name \in Names :
         (last'.op = "getConnection" /\ last'.name = name /\ Live(name))
         => /\ ConnectRequests(last'.reqs) = {}
            /\ connections'[name] = connections[name]]_vars


\* the refresh under way as call ends in this step, and the record it read
\* when it began is no longer the one stored: another refresh replaced it
StaleRefreshEnds(call) ==
    /\ Waiting(call, "refreshAccessToken")
    /\ call \notin DOMAIN inflight'
    /\ inflight[call].name \in DOMAIN tokens
    /\ tokens[inflight[call].name] # inflight[call].tokenData
    /\ tokens[inflight[call].name].obtainedAt >= inflight[call].tokenData.obtainedAt

\* C37: a refresh that ends after another refresh of the same server stored
\* its record does not delete that record and does not put the refresh token
\* it began with back into it.
StaleRefreshHarmless ==
    [][\A call \in Calls :
         StaleRefreshEnds(call)
         => /\ inflight[call].name \in DOMAIN tokens'
            /\ \A i \in RefreshRequests(last'.reqs) :
                 tokens'[inflight[call].name].refresh_token
                     \in {tokens[inflight[call].name].refresh_token,
                          last'.reqs[i].answer.refresh_token}]_vars

\* C38: every token record belongs to a registered server: after
\* removeServer(S) has completed no token record for S appears until S is
\* registered anew, in particular not through the callback of a flow that
\* was initiated before the removal.
TokensOfRegisteredServers ==
    DOMAIN tokens \subseteq DOMAIN configs

\* the metadata documents the remote side serves, and the one synthesized
\* when none is served
Documents ==
    {MetadataDocument([kind |-> k, url |-> Null], CustomServed) : k \in CandidateKinds}
    \cup {DefaultMetadata(GoodUrl.origin)}

SameDocument(authorization, token) ==
    \E m \in Documents : m.authorization_endpoint = authorization /\ m.token_endpoint = token

\* C39: the token endpoint a callback posts the code to comes from the same
\* metadata document as the authorization endpoint that initiate gave the
\* caller for that state, also with a metadata URL in the configuration and
\* with dynamic registration in between.
TokenEndpointOfSameDocument ==
    [][last'.op = "completeOAuthFlow"
         => \A i \in DOMAIN last'.reqs :
               last'.reqs[i].kind = "token"
                  => SameDocument(handedOut[last'.state], last'.reqs[i].endpoint)]_vars

\* C40: initiateOAuthFlow of the manager uses the configured value of an
\* OAuth parameter whenever the caller's options supply none: for a server
\* registered with a client id and a caller that supplies no client id, no
\* registration request is sent and the flow is started with the configured
\* client id and secret.
ConfiguredClientIdUsed ==
    [][(/\ last'.op = "initiateOAuthFlow"
        /\ last'.name \in DOMAIN configs
        /\ Truthy(configs[last'.name].oauth.clientId))
         => /\ \A i \in DOMAIN last'.reqs : last'.reqs[i].kind # "register"
            /\ last'.threw = Null
                  => /\ pendingAuthorizations'[last'.state].clientId
                           = configs[last'.name].oauth.clientId
                     /\ pendingAuthorizations'[last'.state].clientSecret
                           = configs[last'.name].oauth.clientSecret]_vars

====
